---- MODULE Spec2Model ----
(***************************************************************************)
(* Model of the BM25 ranker of notifly-mcp-server (src/src/utils/bm25.ts), *)
(* of the search_docs and search_sdk tools (src/src/tools) and of the       *)
(* tools/call request handler (src/src/index.ts).                          *)
(*                                                                         *)
(* A text is a sequence of one-character strings.  A token is a sequence   *)
(* of characters too.  Real numbers are modelled exactly where the code    *)
(* computes rationals (averages, the term-frequency factor) and in fixed   *)
(* point, ScoreScale units per 1.0, where the code takes a logarithm.      *)
(* Field weights are held in tenths, so a document's total score is in     *)
(* tenths of a fixed-point unit.                                           *)
(***************************************************************************)
EXTENDS Integers, Sequences, FiniteSets, TLC

VARIABLES
    k1,             \* this.k1, in quarters (6 is 1.5)
    b,              \* this.b, in quarters (3 is 0.75)
    fieldWeights,   \* this.fieldWeights: field name -> weight in tenths
    segmenter,      \* whether Intl.Segmenter exists in the runtime
    givenConfig,    \* the config argument the constructor was called with
    documents,      \* this.documents: the batch as given
    avgDocLength,   \* this.avgDocLength: field name -> [sum, cnt] (sum / cnt)
    idfCache,       \* this.idfCache: term -> IDF in fixed point
    tokenizedDocs,  \* this.tokenizedDocs: id -> (field name -> tokens)
    dfTable,        \* termDocFreq of the last calculateIDF (a local, kept to observe it)
    lastOp,         \* the last call made on the instance
    lastBatch,      \* the argument of the last indexDocuments call
    lastQuery,      \* its query argument
    lastMax,        \* its maxResults argument
    lastResult,     \* the list search returned
    pinned,         \* one earlier search call and its result, kept for comparison
    peer,           \* a second instance of the class, as a record; << >> when there is none
    handler,        \* one invocation of the search_sdk handler: its position and its requests
    sdk,            \* the per-SDK contents parsed, the entries, and the last searchSdk call
    docsHandler,    \* one invocation of the search_docs handler: its position, requests and output
    server          \* one tools/call request: its position, the handler calls and the response

vars == << k1, b, fieldWeights, segmenter, givenConfig, documents, avgDocLength, idfCache,
           tokenizedDocs, dfTable, lastOp, lastBatch, lastQuery, lastMax, lastResult,
           pinned, peer, handler, sdk, docsHandler, server >>

index == << documents, avgDocLength, idfCache, tokenizedDocs, dfTable >>
setup == << k1, b, fieldWeights, segmenter, givenConfig >>
ranker == << setup, index, lastOp, lastBatch, lastQuery, lastMax, lastResult, pinned, peer >>

-----------------------------------------------------------------------------
(* Bounds of the model *)

MaxDocs == 2        \* longest batch handed to indexDocuments
MaxResults == 2     \* largest maxResults handed to search
NegResults == 1     \* maxResults ranges down to -NegResults
ScoreScale == 100000    \* fixed-point units per 1.0 of an IDF value or a field score
MaxCopies == 3      \* most copies of one term in a query
MaxLen == 3         \* most tokens in the field of a document of the ranking pool
MaxUrls == 2        \* most per-SDK llms.txt URLs in a mapping llms.txt
MaxLines == 3       \* most lines in the per-SDK llms.txt files of one invocation, together

-----------------------------------------------------------------------------
(* Characters *)

Lower == {"a", "b", "c", "d", "e", "f", "g", "h", "i", "j", "k", "l", "m", "n", "o", "p",
          "q", "r", "s", "t", "u", "v", "w", "x", "y", "z"}
Upper == {"A", "B", "O", "S"}
Digit == {"1"}
Hangul == {"ko_al", "ko_rim"}       \* two Hangul syllables
Space == {" "}
MidNumLet == {"."}                  \* joins letters in UAX 29 word segmentation
Punct == {"!"} \cup MidNumLet

ToLower(c) ==
    CASE c = "A" -> "a" [] c = "B" -> "b" [] c = "O" -> "o" [] c = "S" -> "s" [] OTHER -> c

\* \p{L}|\p{N}
IsLetterOrNumber(c) == c \in Lower \cup Upper \cup Digit \cup Hangul
IsSpace(c) == c \in Space

\* text.normalize("NFKC").toLowerCase()
Normalize(text) == [i \in DOMAIN text |-> ToLower(text[i])]

\* /\p{Script=Han}|\p{Script=Hiragana}|\p{Script=Katakana}|\p{Script=Hangul}/u.test(t)
isCJK(t) == \E i \in DOMAIN t : t[i] \in Hangul

\* /\p{L}|\p{N}/u.test(seg)
HasLetterOrNumber(t) == \E i \in DOMAIN t : IsLetterOrNumber(t[i])

\* KeepLength without the two-character minimum
KeepLengthAny(t) == Len(t) >= 1

\* the length filter both paths end with
KeepLength(t) == IF isCJK(t) THEN Len(t) >= 1 ELSE Len(t) >= 2

-----------------------------------------------------------------------------
(* Tokenizer, regex fallback path *)

\* normalized.replace(/[^\p{L}\p{N}\s]/gu, " ")
ReplacePunct(s) ==
    [i \in DOMAIN s |-> IF IsLetterOrNumber(s[i]) \/ IsSpace(s[i]) THEN s[i] ELSE " "]

\* s.split(/\s+/u): the pieces between runs of whitespace, empty pieces included
RECURSIVE SplitWS(_, _, _)
SplitWS(s, i, cur) ==
    IF i > Len(s) THEN << cur >>
    ELSE IF IsSpace(s[i])
         THEN IF i > 1 /\ IsSpace(s[i - 1])
              THEN SplitWS(s, i + 1, cur)
              ELSE << cur >> \o SplitWS(s, i + 1, << >>)
         ELSE SplitWS(s, i + 1, Append(cur, s[i]))

TokenizeRegex(text) ==
    SelectSeq(SplitWS(ReplacePunct(Normalize(text)), 1, << >>),
              LAMBDA t : t # << >> /\ KeepLength(t))

-----------------------------------------------------------------------------
(* Tokenizer, Intl.Segmenter path *)

IsWordChar(c) == c \in Lower \cup Upper \cup Hangul     \* Word_Break = ALetter
IsNumeric(c) == c \in Digit                             \* Word_Break = Numeric

\* UAX 29: no word boundary between s[i] and s[i+1]
NoBreak(s, i) ==
    \/ (IsWordChar(s[i]) \/ IsNumeric(s[i])) /\ (IsWordChar(s[i + 1]) \/ IsNumeric(s[i + 1]))
    \/ /\ IsWordChar(s[i]) /\ s[i + 1] \in MidNumLet
       /\ i + 2 <= Len(s) /\ IsWordChar(s[i + 2])
    \/ /\ s[i] \in MidNumLet /\ IsWordChar(s[i + 1])
       /\ i > 1 /\ IsWordChar(s[i - 1])
    \/ /\ IsNumeric(s[i]) /\ s[i + 1] \in MidNumLet
       /\ i + 2 <= Len(s) /\ IsNumeric(s[i + 2])
    \/ /\ s[i] \in MidNumLet /\ IsNumeric(s[i + 1])
       /\ i > 1 /\ IsNumeric(s[i - 1])
    \/ IsSpace(s[i]) /\ IsSpace(s[i + 1])

\* Array.from(segmenter.segment(normalized)).map(s => s.segment)
RECURSIVE Segments(_, _, _)
Segments(s, i, cur) ==
    IF i > Len(s) THEN (IF cur = << >> THEN << >> ELSE << cur >>)
    ELSE IF i < Len(s) /\ NoBreak(s, i)
         THEN Segments(s, i + 1, Append(cur, s[i]))
         ELSE << Append(cur, s[i]) >> \o Segments(s, i + 1, << >>)

\* seg.trim()
Trim(t) == SelectSeq(t, LAMBDA c : ~IsSpace(c))

\* TokenizeSegmenter without the length filter at its end
TokenizeSegmenterNoFilter(text) ==
    LET segs == Segments(Normalize(text), 1, << >>)
        trimmed == [i \in DOMAIN segs |-> Trim(segs[i])]
        nonEmpty == SelectSeq(trimmed, LAMBDA t : Len(t) > 0)
    IN  SelectSeq(nonEmpty, HasLetterOrNumber)

TokenizeSegmenter(text) ==
    LET segs == Segments(Normalize(text), 1, << >>)
        trimmed == [i \in DOMAIN segs |-> Trim(segs[i])]
        nonEmpty == SelectSeq(trimmed, LAMBDA t : Len(t) > 0)
        wordy == SelectSeq(nonEmpty, HasLetterOrNumber)
    IN  SelectSeq(wordy, KeepLength)

\* tokenize(text) of an instance whose runtime has (seg) or lacks a segmenter
TokenizeText(seg, text) == IF seg THEN TokenizeSegmenter(text) ELSE TokenizeRegex(text)

-----------------------------------------------------------------------------
(* Inputs *)

EmptyMap == [x \in {} |-> 0]

Sp == << " " >>
W_ab == << "a", "b" >>
W_cd == << "c", "d" >>
W_zz == << "z", "z" >>
W_ko == << "ko_al" >>

Doc1 == [id |-> "1",
         fields |-> [title |-> W_ab \o Sp \o W_cd, description |-> W_ab]]
Doc2 == [id |-> "2",
         fields |-> [title |-> W_cd,
                     description |-> W_ab \o Sp \o W_ab \o Sp \o << "c", "!" >>]]
Doc3 == [id |-> "3",
         fields |-> [text |-> << "A", "B" >> \o Sp \o W_ko, title |-> << >>]]
Doc4 == [id |-> "4", fields |-> [description |-> << " ", "!", " " >>]]

Pool == {Doc1, Doc2, Doc3, Doc4}
SmallPool == {Doc1, Doc2}

\* the batches of at most MaxDocs documents of a pool, ids unique within a batch
BatchesOf(pool) ==
    {s \in UNION {[1..n -> pool] : n \in 0..MaxDocs} :
        \A i, j \in DOMAIN s : i # j => s[i].id # s[j].id}

Q_empty == << >>
Q_space == << " ", " " >>
Q_punct == << "!", "." >>
Q_letters == << "a", " ", "b", " ", "c" >>
Q_ab == W_ab
Q_cd == W_cd
Q_abcd == W_ab \o Sp \o W_cd
Q_none == W_zz
Q_ko == W_ko
Q_dup == << "A", "B" >> \o Sp \o W_ab

\* queries that tokenize to nothing
BlankQueries == {Q_empty, Q_space, Q_punct, Q_letters}
Queries == BlankQueries \cup {Q_ab, Q_cd, Q_abcd, Q_none, Q_ko, Q_dup}
RepeatQueries == {Q_ab, Q_cd, Q_dup, Q_none, Q_empty}
PinQueries == {Q_ab, Q_cd}

Limits == (0 - NegResults)..MaxResults

\* BM25Config records: every key is optional
NoConfig == EmptyMap
DocsConfig == [k1 |-> 6, b |-> 3,
               fieldWeights |-> [title |-> 30, description |-> 15, url |-> 8]]
SdkConfig == [k1 |-> 6, b |-> 3,
              fieldWeights |-> [title |-> 30, description |-> 15, file |-> 10, platform |-> 5]]
Configs == {NoConfig, DocsConfig}

\* the constructions checked: a configuration and whether the runtime has a segmenter
Setups == {<< NoConfig, TRUE >>, << DocsConfig, FALSE >>}

\* a configuration that gives one field the weight 0
ZeroConfig == [fieldWeights |-> [title |-> 0, description |-> 10]]

\* the constructions checked for the field weights
WeightSetups == {<< NoConfig, TRUE >>, << ZeroConfig, FALSE >>, << DocsConfig, TRUE >>}

\* a document whose only field is named f and holds the word ab
FieldNames == {"title", "description", "content", "url", "text"}
FieldDoc(f) == [id |-> f, fields |-> (f :> W_ab)]

WeightPool == {Doc1, FieldDoc("title"), FieldDoc("content"), FieldDoc("text")}

RECURSIVE Copies(_, _)
\* the query made of k copies of the word t
Copies(t, k) == IF k = 1 THEN t ELSE t \o Sp \o Copies(t, k - 1)

CopyQueries == {Copies(t, k) : t \in {W_ab, W_cd}, k \in 1..MaxCopies}
WeightLimits == {1, MaxResults}

\* the text of len words of which the first tf are ab and the others zz
RankText(tf, len) ==
    IF tf = 0 THEN Copies(W_zz, len)
    ELSE IF tf = len THEN Copies(W_ab, len)
    ELSE Copies(W_ab, tf) \o Sp \o Copies(W_zz, len - tf)

\* a document whose only field, text, holds RankText(tf, len)
RankDoc(tf, len) == [id |-> ToString(<< tf, len >>), fields |-> [text |-> RankText(tf, len)]]

\* documents of the longest field with every term frequency, then shorter
\* documents with ab once, then shorter documents without ab
RankList ==
    [i \in 1..(MaxLen + 1) |-> RankDoc(i - 1, MaxLen)]
        \o [i \in 1..(MaxLen - 1) |-> RankDoc(1, i)]
        \o [i \in 1..(MaxLen - 1) |-> RankDoc(0, i)]

RankPool == {RankList[i] : i \in DOMAIN RankList}

RECURSIVE Pick(_, _, _)
\* the elements of list at the positions S, in the order of the list
Pick(list, S, i) ==
    IF i > Len(list) THEN << >>
    ELSE (IF i \in S THEN << list[i] >> ELSE << >>) \o Pick(list, S, i + 1)

Reverse(list) == [i \in DOMAIN list |-> list[Len(list) + 1 - i]]

\* the batches of at most MaxLen + 1 documents of the ranking pool, in the
\* order of RankList or in the opposite order
RankBatches ==
    LET picks == {Pick(RankList, S, 1) :
                    S \in {T \in SUBSET DOMAIN RankList : Cardinality(T) <= MaxLen + 1}}
    IN  picks \cup {Reverse(p) : p \in picks}

\* configurations that set k1 and b and leave the field weights to the default
RankConfigs == {[k1 |-> x, b |-> y] : x \in {2, 6}, y \in {0, 3, 4}}
RankQueries == {W_ab, W_zz}
RankLimits == {1, MaxLen + 1}

\* ASCII texts with a full stop between letters, after a word, and nowhere
W_dot == W_ab \o << "." >> \o W_cd
PathDoc1 == [id |-> "p1", fields |-> [title |-> W_dot]]
PathDoc2 == [id |-> "p2", fields |-> [title |-> W_ab \o Sp \o W_cd]]
PathDoc3 == [id |-> "p3", fields |-> [title |-> << "A", "B", "." >>, description |-> W_cd]]
PathPool == {PathDoc1, PathDoc2, PathDoc3}
PathQueries == {Q_ab, W_dot}

\* an instance in a runtime with a segmenter and one in a runtime without
PathSetups == {<< NoConfig, TRUE >>, << NoConfig, FALSE >>}

\* configurations at the ends of the ranges of k1 and b, the field weights left to the default
ParamConfigs == {[k1 |-> x, b |-> y] : x \in {0, 6}, y \in {0, 3, 4}}
ParamPool == {Doc1, Doc2, Doc3}
ParamQueries == {Q_ab, Q_cd, Q_abcd, Q_ko, Q_none}

SmallBatches == BatchesOf(SmallPool)
ParamBatches == BatchesOf(ParamPool)
PathBatches == BatchesOf(PathPool)
WeightBatches == BatchesOf(WeightPool)
AllBatches == BatchesOf(Pool)

-----------------------------------------------------------------------------
(* search_sdk: the per-SDK llms.txt files and their entries *)

\* \w of a regular expression without the u flag, for lower-case text
IsW(c) == c \in Lower \cup Digit

\* \b at position i of h: between h[i - 1] and h[i], one of them \w and the other not
WordBoundary(h, i) == (i > 1 /\ IsW(h[i - 1])) # (i <= Len(h) /\ IsW(h[i]))

\* w stands in h from position i on
MatchAt(h, i, w) == i + Len(w) - 1 <= Len(h) /\ SubSeq(h, i, i + Len(w) - 1) = w

\* /\bw\b/.test(h)
HasWord(h, w) ==
    \E i \in 1..Len(h) : MatchAt(h, i, w) /\ WordBoundary(h, i) /\ WordBoundary(h, i + Len(w))

\* the characters of h from position from to position to match \s*-?\s* (dash) or \s*
IsGap(h, from, to, dash) ==
    /\ \A n \in from..to : IsSpace(h[n]) \/ (dash /\ h[n] = "-")
    /\ Cardinality({n \in from..to : h[n] = "-"}) <= 1

\* /\bw1<gap>w2\b/.test(h)
HasTwoWords(h, w1, w2, dash) ==
    \E i \in 1..Len(h), j \in 1..Len(h) :
        /\ MatchAt(h, i, w1) /\ WordBoundary(h, i)
        /\ j >= i + Len(w1) /\ IsGap(h, i + Len(w1), j - 1, dash)
        /\ MatchAt(h, j, w2) /\ WordBoundary(h, j + Len(w2))

\* /\bgoogle\s*tag\s*manager\b/.test(h)
HasGoogleTagManager(h) ==
    \E i \in 1..Len(h), j \in 1..Len(h), n \in 1..Len(h) :
        /\ MatchAt(h, i, << "g", "o", "o", "g", "l", "e" >>) /\ WordBoundary(h, i)
        /\ j >= i + 6 /\ IsGap(h, i + 6, j - 1, FALSE) /\ MatchAt(h, j, << "t", "a", "g" >>)
        /\ n >= j + 3 /\ IsGap(h, j + 3, n - 1, FALSE) /\ MatchAt(h, n, << "m", "a", "n", "a", "g", "e", "r" >>)
        /\ WordBoundary(h, n + 7)

RECURSIVE TrimStart(_)
TrimStart(t) == IF t # << >> /\ IsSpace(Head(t)) THEN TrimStart(Tail(t)) ELSE t

RECURSIVE TrimEnd(_)
TrimEnd(t) ==
    IF t # << >> /\ IsSpace(t[Len(t)]) THEN TrimEnd(SubSeq(t, 1, Len(t) - 1)) ELSE t

\* t.trim()
TrimEnds(t) == TrimEnd(TrimStart(t))

\* the characters of t before the first one that satisfies Stop
UpTo(t, Stop(_)) ==
    LET stops == {i \in DOMAIN t : Stop(t[i])}
    IN  IF stops = {} THEN t
        ELSE SubSeq(t, 1, (CHOOSE i \in stops : \A j \in stops : i <= j) - 1)

P_unknown == << "u", "n", "k", "n", "o", "w", "n" >>
P_all == << "a", "l", "l" >>
P_ios == << "i", "o", "s" >>
P_android == << "a", "n", "d", "r", "o", "i", "d" >>
P_flutter == << "f", "l", "u", "t", "t", "e", "r" >>
P_javascript == << "j", "a", "v", "a", "s", "c", "r", "i", "p", "t" >>
P_gtm == << "g", "t", "m" >>
P_reactNative == << "r", "e", "a", "c", "t", "-", "n", "a", "t", "i", "v", "e" >>

\* canonicalizePlatformHeader(rawHeader)
CanonicalizePlatformHeader(rawHeader) ==
    LET header == Normalize(rawHeader)
        withoutParen == UpTo(header, LAMBDA c : c = "(")
        firstToken == UpTo(TrimEnds(withoutParen), IsSpace)
    IN  IF HasTwoWords(header, << "r", "e", "a", "c", "t" >>, << "n", "a", "t", "i", "v", "e" >>, TRUE) THEN P_reactNative
        ELSE IF HasWord(header, P_ios) THEN P_ios
        ELSE IF HasWord(header, P_android) THEN P_android
        ELSE IF HasWord(header, P_flutter) THEN P_flutter
        ELSE IF \/ HasWord(header, << "t", "y", "p", "e", "s", "c", "r", "i", "p", "t" >>)
                \/ HasWord(header, P_javascript)
                \/ HasWord(header, << "j", "s" >>)
                \/ HasWord(header, << "w", "e", "b" >>) THEN P_javascript
        ELSE IF HasGoogleTagManager(header) \/ HasWord(header, P_gtm) THEN P_gtm
        ELSE IF firstToken # << >> THEN firstToken ELSE P_unknown

\* a line of a per-SDK llms.txt as the two regular expressions of parseSdkLlmsTxt
\* see it: a platform header with the text after "Platform:", or a list entry
\* with its title, its file and perhaps a description
HeaderLine(raw) == [kind |-> "header", raw |-> raw]
EntryLine(title, file) == [kind |-> "entry", title |-> title, file |-> file]
DescribedLine(title, file, description) ==
    [kind |-> "entry", title |-> title, file |-> file, description |-> description]

F_kt == << "z", "z", ".", "k", "t" >>
F_js == << "z", "z", ".", "j", "s" >>

L_ios == HeaderLine(<< "i", "O", "S" >>)
L_paren == HeaderLine(<< " ", "a", "b", " ", "(", "c", "d", ")" >>)
L_blank == HeaderLine(<< " " >>)
L_one == EntryLine(W_ab \o Sp, F_kt)
L_two == DescribedLine(W_cd, F_js, W_ab \o Sp \o W_ab)
L_untitled == EntryLine(<< >>, F_kt)

LinePool == {L_ios, L_paren, L_blank, L_one, L_two, L_untitled}

\* the SdkEntry pushed for an entry line
EntryOf(line, platform) ==
    [platform |-> platform, title |-> TrimEnds(line.title), file |-> TrimEnds(line.file)]
        @@ (IF "description" \in DOMAIN line
            THEN [description |-> TrimEnds(line.description)] ELSE EmptyMap)

RECURSIVE ParseLines(_, _, _)
\* the loop of parseSdkLlmsTxt from line i on, currentPlatform being as given
ParseLines(lines, i, currentPlatform) ==
    IF i > Len(lines) THEN << >>
    ELSE LET line == lines[i]
         IN  IF line.kind = "header"
             THEN ParseLines(lines, i + 1, CanonicalizePlatformHeader(TrimEnds(line.raw)))
             ELSE IF line.kind = "entry" /\ line.title # << >> /\ line.file # << >>
                  THEN << EntryOf(line, currentPlatform) >>
                           \o ParseLines(lines, i + 1, currentPlatform)
                  ELSE ParseLines(lines, i + 1, currentPlatform)

\* parseSdkLlmsTxt(content)
ParseSdkLlmsTxt(lines) == ParseLines(lines, 1, P_unknown)

RECURSIVE ParseEach(_)
\* contents.flatMap((c) => parseSdkLlmsTxt(c))
ParseEach(contents) ==
    IF contents = << >> THEN << >>
    ELSE ParseSdkLlmsTxt(Head(contents)) \o ParseEach(Tail(contents))

RECURSIVE Concat(_)
Concat(list) == IF list = << >> THEN << >> ELSE Head(list) \o Concat(Tail(list))

\* ParseAllSdk that parses the contents joined into one
ParseAllSdkJoined(contents) == ParseSdkLlmsTxt(Concat(contents))

\* perSdkContents.filter((c) => !!c).flatMap((c) => parseSdkLlmsTxt(c))
ParseAllSdk(contents) ==
    ParseEach(SelectSeq(contents, LAMBDA c : c # << >>))

\* the sequences of at most MaxLines lines
LineSeqs == UNION {[1..n -> LinePool] : n \in 0..MaxLines}

\* lines cut into m contents after the positions cut[1] <= ... <= cut[m - 1]
CutInto(lines, m, cut) ==
    [n \in 1..m |->
        SubSeq(lines, (IF n = 1 THEN 0 ELSE cut[n - 1]) + 1, IF n = m THEN Len(lines) ELSE cut[n])]

\* the ways to cut n lines into m contents; a content may be empty, as the
\* content of a request that failed is
CutsOf(n, m) ==
    {cut \in [1..(m - 1) -> 0..n] : \A x, y \in 1..(m - 1) : x <= y => cut[x] <= cut[y]}

\* the platform values the input schema hands to the handler, of which no
\* parsed entry has flutter
SdkPlatforms == {P_all, P_ios, P_flutter}
SdkQueries == {Q_ab, Q_cd, P_ios, Q_none}

\* FilterByPlatform that keeps every entry
FilterByPlatformNone(entries, platform) == entries

\* platform !== "all" ? entries.filter((entry) => entry.platform === platform) : entries
FilterByPlatform(entries, platform) ==
    IF platform # P_all THEN SelectSeq(entries, LAMBDA e : e.platform = platform) ELSE entries

\* index.toString() and parseInt(result.id), the index counted from 0
IndexToString(i) == ToString(i - 1)
ParseInt(id, n) == CHOOSE i \in 1..n : IndexToString(i) = id

\* filteredEntries.map((entry, index) => ({ id, fields })): a missing description is ""
SdkDocuments(filtered) ==
    [i \in DOMAIN filtered |->
        [id |-> IndexToString(i),
         fields |-> [title |-> filtered[i].title,
                     description |-> IF "description" \in DOMAIN filtered[i]
                                     THEN filtered[i].description ELSE << >>,
                     file |-> filtered[i].file,
                     platform |-> filtered[i].platform]]]

\* the contents searchSdk is checked on: those of one per-SDK file
SearchContents == {<< lines >> : lines \in LineSeqs}

\* the batches searchSdk indexes
SdkBatches ==
    {SdkDocuments(FilterByPlatform(ParseAllSdk(contents), platform)) :
        contents \in SearchContents, platform \in SdkPlatforms}

-----------------------------------------------------------------------------
(* The tables of the tokenizer and of the index *)

\* every batch handed to indexDocuments
IndexedBatches ==
    AllBatches \cup WeightBatches \cup RankBatches \cup PathBatches \cup SdkBatches

\* the field values of the documents of a pool
TextsOf(pool) == UNION {{d.fields[f] : f \in DOMAIN d.fields} : d \in pool}

\* every text handed to the tokenizer: the field values of the pools and the queries
AllTexts ==
    TextsOf(Pool \cup WeightPool \cup RankPool \cup PathPool)
        \cup TextsOf(UNION {{batch[i] : i \in DOMAIN batch} : batch \in SdkBatches})
        \cup Queries \cup CopyQueries \cup PathQueries \cup SdkQueries

\* tokenize of every text, computed once (@@ makes the table an explicit function)
TokenTable ==
    [seg \in BOOLEAN |-> [text \in AllTexts |-> TokenizeText(seg, text)] @@ EmptyMap]
        @@ EmptyMap

\* this.tokenize(text)
Tokenize(seg, text) == TokenTable[seg][text]

-----------------------------------------------------------------------------
(* Numbers *)

Min(x, y) == IF x <= y THEN x ELSE y
Max(x, y) == IF x >= y THEN x ELSE y

RECURSIVE Gcd(_, _)
Gcd(x, y) == IF y = 0 THEN x ELSE Gcd(y, x % y)

\* the number sum / cnt, as a fraction in lowest terms
Frac(sum, cnt) ==
    LET g == Gcd(sum, cnt) IN [num |-> sum \div g, den |-> cnt \div g]

\* sum over k >= 0 of y^(2k+1) / (2k+1), y = sqrt(n2 / d2), t = y^(2k+1) in fixed point
RECURSIVE AtanhSeries(_, _, _, _)
AtanhSeries(t, n2, d2, k) ==
    IF t = 0 THEN 0 ELSE (t \div k) + AtanhSeries((t * n2) \div d2, n2, d2, k + 2)

\* ln(p / q) for p >= q > 0, in fixed point: ln x = 2 atanh((x - 1) / (x + 1))
LogAtLeastOne(p, q) ==
    2 * AtanhSeries((ScoreScale * (p - q)) \div (p + q),
                    (p - q) * (p - q), (p + q) * (p + q), 1)

\* Math.log(p / q) for p > 0 and q > 0, in fixed point
MathLog(p, q) == IF p >= q THEN LogAtLeastOne(p, q) ELSE 0 - LogAtLeastOne(q, p)

-----------------------------------------------------------------------------
(* indexDocuments *)

FieldsOf(doc) == DOMAIN doc.fields

\* TokenizedOf that reads the fields title and description of every document
TokenizedOfSchema(seg, doc) ==
    [f \in {"title", "description"} |->
        IF f \in FieldsOf(doc) THEN Tokenize(seg, doc.fields[f]) ELSE << >>]

\* the Record<string, string[]> built for one document
TokenizedOf(seg, doc) == [f \in FieldsOf(doc) |-> Tokenize(seg, doc.fields[f])]

\* this.tokenizedDocs after the loop: a later document of the same id replaces an earlier one
TokenizedDocsOf(seg, batch) ==
    LET ids == {batch[i].id : i \in DOMAIN batch}
        last(id) == CHOOSE i \in DOMAIN batch :
                        /\ batch[i].id = id
                        /\ \A j \in DOMAIN batch : batch[j].id = id => j <= i
    IN  [id \in ids |-> TokenizedOf(seg, batch[last(id)])]

RECURSIVE SumLengths(_, _, _, _)
\* fieldLengths[field].reduce((a, b) => a + b, 0)
SumLengths(seg, batch, f, i) ==
    IF i > Len(batch) THEN 0
    ELSE (IF f \in FieldsOf(batch[i]) THEN Len(Tokenize(seg, batch[i].fields[f])) ELSE 0)
         + SumLengths(seg, batch, f, i + 1)

\* CountWithField that counts every document of the batch
CountWithFieldAll(batch, f) == Len(batch)

\* fieldLengths[field].length
CountWithField(batch, f) == Cardinality({i \in DOMAIN batch : f \in FieldsOf(batch[i])})

BatchFields(batch) == UNION {FieldsOf(batch[i]) : i \in DOMAIN batch}

\* AvgDocLengthOf that assigns only the fields that have no entry yet
AvgDocLengthKeepFirst(seg, prev, batch) ==
    [f \in DOMAIN prev \cup BatchFields(batch) |->
        IF f \in DOMAIN prev THEN prev[f]
        ELSE Frac(SumLengths(seg, batch, f, 1), CountWithField(batch, f))]

\* this.avgDocLength after the loop over fieldLengths: only the fields of the
\* batch are assigned, the entries of other fields stay as they were
AvgDocLengthOf(seg, prev, batch) ==
    [f \in DOMAIN prev \cup BatchFields(batch) |->
        IF f \in BatchFields(batch)
        THEN Frac(SumLengths(seg, batch, f, 1), CountWithField(batch, f))
        ELSE prev[f]]

\* the terms of one tokenized document, over all its fields
TermsOf(tokenized) ==
    UNION {{tokenized[f][i] : i \in DOMAIN tokenized[f]} : f \in DOMAIN tokenized}

\* TermDocFreq without seenTerms shared by the fields: one count per field holding the term
TermDocFreqPerField(tdocs) ==
    LET terms == UNION {TermsOf(tdocs[id]) : id \in DOMAIN tdocs}
        holds(id, t) == {f \in DOMAIN tdocs[id] : \E i \in DOMAIN tdocs[id][f] : tdocs[id][f][i] = t}
        pairs(t) == UNION {{<< id, f >> : f \in holds(id, t)} : id \in DOMAIN tdocs}
    IN  [t \in terms |-> Cardinality(pairs(t))]

\* termDocFreq: for each term the number of entries of tokenizedDocs holding it
TermDocFreq(tdocs) ==
    LET terms == UNION {TermsOf(tdocs[id]) : id \in DOMAIN tdocs}
    IN  [t \in terms |-> Cardinality({id \in DOMAIN tdocs : t \in TermsOf(tdocs[id])})]

\* the classic IDF, without the + 1: Math.log((N - df + 0.5) / (df + 0.5))
IdfClassic(N, df) == MathLog(2 * N - 2 * df + 1, 2 * df + 1)

\* IdfOf with the fraction upside down: Math.log((df + 0.5) / (N - df + 0.5) + 1)
IdfInverted(N, df) == MathLog((2 * df + 1) + (2 * N - 2 * df + 1), 2 * N - 2 * df + 1)

\* IdfOf without the 0.5 of smoothing: Math.log((N - df) / df + 1)
IdfUnsmoothed(N, df) == MathLog(N, df)

\* Math.log((N - df + 0.5) / (df + 0.5) + 1), numerator and denominator doubled
IdfOf(N, df) == MathLog((2 * N - 2 * df + 1) + (2 * df + 1), 2 * df + 1)

\* this.idfCache after calculateIDF
CalculateIDF(docs, tdocs) ==
    LET N == Len(docs)
        freq == TermDocFreq(tdocs)
    IN  [t \in DOMAIN freq |-> IdfOf(N, freq[t])]

\* what indexDocuments(batch) builds from the batch alone
BuildIndex(seg, batch) ==
    LET tdocs == TokenizedDocsOf(seg, batch)
    IN  [tokenizedDocs |-> tdocs,
         dfTable |-> TermDocFreq(tdocs),
         idfCache |-> CalculateIDF(batch, tdocs)]

\* BuildIndex of every batch, computed once (@@ makes the table an explicit function)
BuildTable ==
    [seg \in BOOLEAN |-> [batch \in IndexedBatches |-> BuildIndex(seg, batch)] @@ EmptyMap]
        @@ EmptyMap

\* IndexDocumentsOp that returns at once for an empty batch
IndexDocumentsSkipEmpty(seg, prev, batch) ==
    IF batch = << >> THEN prev
    ELSE LET built == BuildTable[seg][batch]
         IN  [documents |-> batch,
              tokenizedDocs |-> built.tokenizedDocs,
              avgDocLength |-> AvgDocLengthOf(seg, prev.avgDocLength, batch),
              dfTable |-> built.dfTable,
              idfCache |-> built.idfCache]

\* the fields of the instance after indexDocuments(batch), prev being those before
IndexDocumentsOp(seg, prev, batch) ==
    LET built == BuildTable[seg][batch]
    IN  [documents |-> batch,
         tokenizedDocs |-> built.tokenizedDocs,
         avgDocLength |-> AvgDocLengthOf(seg, prev.avgDocLength, batch),
         dfTable |-> built.dfTable,
         idfCache |-> built.idfCache]

-----------------------------------------------------------------------------
(* search *)

\* getIDF(term): this.idfCache.get(term) || 0
GetIDF(cache, term) == IF term \in DOMAIN cache THEN cache[term] ELSE 0

\* docTokens.filter((t) => t === term).length
TermFreq(docTokens, term) == Cardinality({i \in DOMAIN docTokens : docTokens[i] = term})

\* avgLength || 1, for an average held as a fraction or not held at all
AvgOrOne(avg, f) ==
    IF f \in DOMAIN avg /\ avg[f].num # 0 THEN avg[f] ELSE [num |-> 1, den |-> 1]

\* TermScore whose denominator lacks the term frequency
TermScoreNoSaturation(kq, bq, idf, tf, docLength, a) ==
    (idf * (tf * (kq + 4) * 4 * a.num))
        \div (kq * ((4 - bq) * a.num + bq * docLength * a.den))

\* TermScore with b and 1 - b exchanged
TermScoreSwapB(kq, bq, idf, tf, docLength, a) ==
    (idf * (tf * (kq + 4) * 4 * a.num))
        \div (16 * tf * a.num + kq * (bq * a.num + (4 - bq) * docLength * a.den))

\* idf * (numerator / denominator) of one query term:
\*   numerator   = tf * (k1 + 1)
\*   denominator = tf + k1 * (1 - b + b * (docLength / avgLength))
\* with k1 = kq / 4, b = bq / 4 and avgLength = a.num / a.den the quotient is
\*   tf (kq + 4) 4 a.num / (16 tf a.num + kq ((4 - bq) a.num + bq docLength a.den))
TermScore(kq, bq, idf, tf, docLength, a) ==
    (idf * (tf * (kq + 4) * 4 * a.num))
        \div (16 * tf * a.num + kq * ((4 - bq) * a.num + bq * docLength * a.den))

RECURSIVE CalculateFieldScoreDedup(_, _, _, _, _, _, _)
\* CalculateFieldScore that scores a term of the query once, at its first position
CalculateFieldScoreDedup(kq, bq, cache, queryTerms, docTokens, a, i) ==
    IF i > Len(queryTerms) THEN 0
    ELSE LET term == queryTerms[i]
             tf == TermFreq(docTokens, term)
         IN  (IF tf = 0 \/ (\E j \in 1..(i - 1) : queryTerms[j] = term) THEN 0
              ELSE TermScore(kq, bq, GetIDF(cache, term), tf, Len(docTokens), a))
             + CalculateFieldScoreDedup(kq, bq, cache, queryTerms, docTokens, a, i + 1)

RECURSIVE CalculateFieldScore(_, _, _, _, _, _, _)
\* calculateFieldScore(queryTerms, docTokens, avgLength), query terms from position i on
CalculateFieldScore(kq, bq, cache, queryTerms, docTokens, a, i) ==
    IF i > Len(queryTerms) THEN 0
    ELSE LET term == queryTerms[i]
             tf == TermFreq(docTokens, term)
         IN  (IF tf = 0 THEN 0
              ELSE TermScore(kq, bq, GetIDF(cache, term), tf, Len(docTokens), a))
             + CalculateFieldScore(kq, bq, cache, queryTerms, docTokens, a, i + 1)

\* this.fieldWeights[field] || 1.0, in tenths
WeightOf(fw, f) == IF f \in DOMAIN fw /\ fw[f] # 0 THEN fw[f] ELSE 10

\* totalScore of one document: the weighted field scores added up
TotalScore(kq, bq, fw, idx, queryTerms, tokenized) ==
    LET fieldPart(f) ==
            (CalculateFieldScore(kq, bq, idx.idfCache, queryTerms, tokenized[f],
                                 AvgOrOne(idx.avgDocLength, f), 1)
             * WeightOf(fw, f))
        sum[S \in SUBSET DOMAIN tokenized] ==
            IF S = {} THEN 0
            ELSE LET f == CHOOSE x \in S : TRUE IN fieldPart(f) + sum[S \ {f}]
    IN  sum[DOMAIN tokenized]

RECURSIVE ScoresKeepZero(_, _, _, _, _, _)
\* Scores with totalScore >= 0 as the test
ScoresKeepZero(kq, bq, fw, idx, queryTerms, i) ==
    IF i > Len(idx.documents) THEN << >>
    ELSE LET doc == idx.documents[i]
             rest == ScoresKeepZero(kq, bq, fw, idx, queryTerms, i + 1)
         IN  IF doc.id \notin DOMAIN idx.tokenizedDocs THEN rest
             ELSE LET total == TotalScore(kq, bq, fw, idx, queryTerms,
                                          idx.tokenizedDocs[doc.id])
                  IN  IF total >= 0
                      THEN << [id |-> doc.id, score |-> total, doc |-> doc] >> \o rest
                      ELSE rest

RECURSIVE Scores(_, _, _, _, _, _)
\* the scores array: the documents of positive total score, in batch order
Scores(kq, bq, fw, idx, queryTerms, i) ==
    IF i > Len(idx.documents) THEN << >>
    ELSE LET doc == idx.documents[i]
             rest == Scores(kq, bq, fw, idx, queryTerms, i + 1)
         IN  IF doc.id \notin DOMAIN idx.tokenizedDocs THEN rest
             ELSE LET total == TotalScore(kq, bq, fw, idx, queryTerms,
                                          idx.tokenizedDocs[doc.id])
                  IN  IF total > 0
                      THEN << [id |-> doc.id, score |-> total, doc |-> doc] >> \o rest
                      ELSE rest

\* InsertByScore that puts the element before its equals
InsertByScoreBeforeEquals(sorted, e) ==
    LET before == SelectSeq(sorted, LAMBDA x : x.score > e.score)
        after == SelectSeq(sorted, LAMBDA x : x.score <= e.score)
    IN  before \o << e >> \o after

\* one element put into a list sorted by (a, b) => b.score - a.score, after its equals
InsertByScore(sorted, e) ==
    LET before == SelectSeq(sorted, LAMBDA x : x.score >= e.score)
        after == SelectSeq(sorted, LAMBDA x : x.score < e.score)
    IN  before \o << e >> \o after

\* SortByScore that leaves the list as it is
SortByScoreNone(list, n) == list

RECURSIVE SortByScore(_, _)
\* scores.sort((a, b) => b.score - a.score): Array.prototype.sort is stable
SortByScore(list, n) ==
    IF n = 0 THEN << >> ELSE InsertByScore(SortByScore(list, n - 1), list[n])

\* list.slice(-end): the last end elements instead of the first
SliceFromEnd(list, end) ==
    LET stop == IF end < 0 THEN Max(Len(list) + end, 0) ELSE Min(end, Len(list))
    IN  SubSeq(list, Len(list) - stop + 1, Len(list))

\* list.slice(0, end): a negative end counts from the end of the list
Slice(list, end) ==
    LET stop == IF end < 0 THEN Max(Len(list) + end, 0) ELSE Min(end, Len(list))
    IN  SubSeq(list, 1, stop)

\* search(query, maxResults) on an instance whose fields are idx
SearchOp(kq, bq, fw, seg, idx, query, maxResults) ==
    LET queryTerms == Tokenize(seg, query)
    IN  IF Len(queryTerms) = 0 THEN << >>
        ELSE LET scores == Scores(kq, bq, fw, idx, queryTerms, 1)
             IN  Slice(SortByScore(scores, Len(scores)), maxResults)

-----------------------------------------------------------------------------
(* search_sdk: one invocation *)

SdkIdle == [parsed |-> FALSE, contents |-> << >>, entries |-> << >>, searched |-> FALSE,
            query |-> << >>, platform |-> << >>, max |-> 0, results |-> << >>,
            report |-> "none"]

-----------------------------------------------------------------------------
(* The search_sdk handler: what it does between two awaits *)

\* one entry of the record of requests and their outcomes
Ev(op, url) == [op |-> op, url |-> url]

MappingUrl == "mapping"     \* MAPPING_LLMS_URL
LocalPath == "local"        \* pickLocalSdkLlmsPath()
SdkUrl(i) == "sdk" \o ToString(i)          \* the i-th URL parseMappingLlmsUrls finds
SourceUrl(j) == "source" \o ToString(j)    \* entry.file of the j-th search result
SdkUrls == {SdkUrl(i) : i \in 1..MaxUrls}

\* what a per-SDK request can end with: a failure (the handler keeps ""), or a
\* text with no entry, with entries that do not match the query, or with a match
SdkOutcomes == {<< FALSE, "" >>, << TRUE, "none" >>, << TRUE, "miss" >>, << TRUE, "hit" >>}

\* how the request for the mapping can end
MappingOutcomes == {"ok", "http", "network", "timeout"}

HandlerIdle ==
    [pc |-> "idle", log |-> << >>, source |-> "none", max |-> 0, urls |-> {},
     pending |-> {}, contents |-> EmptyMap, found |-> 0, sources |-> {},
     codes |-> EmptyMap, outcome |-> "none"]

\* the outer catch: an ApiError is thrown on, anything else is wrapped in an ApiError
Throw(h) == [h EXCEPT !.pc = "done", !.outcome = "ApiError"]

Return(h, text) == [h EXCEPT !.pc = "done", !.outcome = text]

\* with the mapping content in hand: parseMappingLlmsUrls finds n URLs; none is
\* an ApiError, otherwise every per-SDK request is sent before the first await
WithMapping(h, n) ==
    IF n = 0 THEN Throw(h)
    ELSE [h EXCEPT !.pc = "fetchSdks", !.urls = 1..n, !.pending = 1..n,
                   !.log = @ \o [i \in 1..n |-> Ev("fetch", SdkUrl(i))]]

\* the remote mapping failed: the local file is read
OnMappingFailure(h) ==
    [h EXCEPT !.pc = "readLocal", !.log = Append(@, Ev("read", LocalPath))]

\* OnLocalFailure that goes on with a built-in list of per-SDK URLs
OnLocalFailureBuiltIn(h) == WithMapping(h, MaxUrls)

\* the local file failed too: ApiError
OnLocalFailure(h) == Throw(h)

\* every per-SDK request has ended: parse, search, and request the sources
AfterSdks(h) ==
    LET entries == {i \in h.urls : h.contents[i] \in {"miss", "hit"}}
        hits == {i \in h.urls : h.contents[i] = "hit"}
        results == Min(Cardinality(hits), h.max)
    IN  IF entries = {} THEN Return(h, "warning")
        ELSE IF results = 0 THEN Return(h, "noResults")
        ELSE [h EXCEPT !.pc = "fetchSources", !.found = results, !.sources = 1..results,
                       !.log = @ \o [j \in 1..results |-> Ev("fetch", SourceUrl(j))]]

-----------------------------------------------------------------------------
(* Fetching the content of one result *)

\* how a request for content can end: a body, a status that is not ok, the
\* timer's abort, a network error, a body that cannot be read; and, for
\* fetchSdkContent, a URL outside raw.githubusercontent.com, never requested
ContentOutcomes == {"ok", "http404", "http429", "http500", "timeout", "network", "body"}
SdkContentOutcomes == ContentOutcomes \cup {"notGithub"}

Returned(text) == [threw |-> FALSE, text |-> text]
Thrown(message) == [threw |-> TRUE, text |-> message]

\* the inner try of fetchDocContent with its catch: the timer's abort is
\* answered with a text, any other error is thrown on
DocContentInner(outcome) ==
    CASE outcome = "ok" -> Returned("content")
      [] outcome = "http429" -> Returned("Rate limited (HTTP 429). Please try again later.")
      [] outcome = "http500" -> Returned("Server error (HTTP 500). Please try again later.")
      [] outcome = "http404" -> Returned("Unable to fetch content (HTTP 404)")
      [] outcome = "timeout" -> Returned("Request timeout. Server may be slow or unreachable.")
      [] OTHER -> Thrown(outcome)

\* FetchDocContent without the outer catch
FetchDocContentRethrow(outcome) == DocContentInner(outcome)

\* fetchDocContent(url): the outer catch turns what was thrown into a text
FetchDocContent(outcome) ==
    LET inner == DocContentInner(outcome)
    IN  IF inner.threw THEN Returned("Error fetching content: " \o inner.text) ELSE inner

\* the inner try of fetchSdkContent with its catch
SdkContentInner(outcome) ==
    CASE outcome = "ok" -> Returned("content")
      [] outcome = "http429" -> Returned("Rate limited by GitHub (HTTP 429). Please try again later.")
      [] outcome = "http500" -> Returned("GitHub server error (HTTP 500). Please try again later.")
      [] outcome = "http404" -> Returned("Unable to fetch content (HTTP 404)")
      [] outcome = "timeout" -> Returned("Request timeout. GitHub may be slow or unreachable.")
      [] OTHER -> Thrown(outcome)

\* fetchSdkContent(url)
FetchSdkContent(outcome) ==
    IF outcome = "notGithub"
    THEN Returned("Source code is not available online.")
    ELSE LET inner == SdkContentInner(outcome)
         IN  IF inner.threw THEN Returned("Error fetching content: " \o inner.text)
             ELSE inner

-----------------------------------------------------------------------------
(* The search_docs handler: what it does between two awaits *)

IndexUrl == "llms"                       \* llmsUrl of pickDocsSource
PageUrl(i) == "page" \o ToString(i)      \* the absolute URL of the i-th link of the index

\* how the request for the index can end: a body, a status that is not ok, a
\* network error, a body that cannot be read
IndexOutcomes == {"ok", "http", "network", "body"}

\* the lists searchDocs can return for an index of n links and a limit: some
\* of the links, each once, in the order of their scores
Rankings(n, limit) ==
    {r \in UNION {[1..len -> 1..n] : len \in 0..Min(n, limit)} :
        \A p, q \in DOMAIN r : p # q => r[p] # r[q]}

DocsIdle ==
    [pc |-> "idle", log |-> << >>, max |-> 0, links |-> 0, results |-> << >>,
     output |-> << >>, outcome |-> "none"]

\* the outer catch of the search_docs handler
DocsThrow(d) == [d EXCEPT !.pc = "done", !.outcome = "ApiError"]

DocsReturn(d, text) == [d EXCEPT !.pc = "done", !.outcome = text]

\* the loop over the results reaches its next await, or ends
NextPage(d) ==
    IF Len(d.output) = Len(d.results) THEN DocsReturn(d, "results")
    ELSE [d EXCEPT !.pc = "fetchPage",
                   !.log = Append(@, Ev("fetch", PageUrl(d.results[Len(d.output) + 1])))]

\* WithIndex without the check for an empty ranking
WithIndexNoEmptyCheck(d, n, ranking) ==
    IF n = 0 THEN DocsReturn([d EXCEPT !.links = n], "warning")
    ELSE NextPage([d EXCEPT !.links = n, !.results = ranking])

\* with the index in hand: parseLlmsTxt finds n links and searchDocs ranks them
WithIndex(d, n, ranking) ==
    IF n = 0 THEN DocsReturn([d EXCEPT !.links = n], "warning")
    ELSE IF Len(ranking) = 0 THEN DocsReturn([d EXCEPT !.links = n], "noResults")
    ELSE NextPage([d EXCEPT !.links = n, !.results = ranking])

-----------------------------------------------------------------------------
(* The tools/call request handler *)

Tools == {"search_docs", "search_sdk"}      \* the names of MCP_TOOLS

\* what can be thrown, by its class; "other" is a value that is not an Error
ErrorClasses ==
    {"ApiError", "ValidationError", "ConfigurationError", "NotFoundError", "Error", "other"}

\* formatErrorForUser(error): the first line of the message
FormatErrorForUser(class) ==
    CASE class = "ApiError" -> "[API Error]"
      [] class = "ValidationError" -> "[Validation Error]"
      [] class = "ConfigurationError" -> "[Configuration Error]"
      [] class = "NotFoundError" -> "[Not Found]"
      [] class = "Error" -> "[Error]"
      [] OTHER -> "[Unknown Error]"

NoResponse == [isError |-> FALSE, text |-> "none"]

\* the response of the try block, and the response of its catch
TextResponse(text) == [isError |-> FALSE, text |-> text]
ErrorResponse(class) == [isError |-> TRUE, text |-> FormatErrorForUser(class)]

ServerIdle ==
    [pc |-> "idle", tool |-> "none", valid |-> FALSE, calls |-> 0, thrown |-> "none",
     response |-> NoResponse]

\* Dispatch that calls the handler with the raw arguments and validates afterwards
DispatchUnvalidated(tool, valid) ==
    LET s == [ServerIdle EXCEPT !.tool = tool, !.valid = valid]
    IN  IF tool \notin Tools
        THEN [s EXCEPT !.pc = "done", !.thrown = "ConfigurationError"]
        ELSE [s EXCEPT !.pc = "await", !.calls = 1]

\* the request handler up to its first await: a name that is not registered is
\* thrown out of the handler; arguments the schema refuses are thrown into the
\* catch; otherwise the tool's handler is called and awaited
Dispatch(tool, valid) ==
    LET s == [ServerIdle EXCEPT !.tool = tool, !.valid = valid]
    IN  IF tool \notin Tools
        THEN [s EXCEPT !.pc = "done", !.thrown = "ConfigurationError"]
        ELSE IF ~valid
        THEN [s EXCEPT !.pc = "done", !.response = ErrorResponse("ValidationError")]
        ELSE [s EXCEPT !.pc = "await", !.calls = 1]

\* the invocation the request awaits
Awaited == IF server.tool = "search_docs" THEN docsHandler ELSE handler

-----------------------------------------------------------------------------
(* The instance *)

DefaultK1 == 6      \* 1.5 in quarters
DefaultB == 3       \* 0.75 in quarters
\* DefaultFieldWeights with the weight 1.0 for every name
DefaultFieldWeightsUniform == [title |-> 10, description |-> 10, content |-> 10, url |-> 10]

\* the mapping used when the configuration gives none, in tenths
DefaultFieldWeights == [title |-> 20, description |-> 10, content |-> 8, url |-> 5]

\* the fields of this as one record
Index == [documents |-> documents, tokenizedDocs |-> tokenizedDocs,
          avgDocLength |-> avgDocLength, dfTable |-> dfTable, idfCache |-> idfCache]

\* the fields of a newly constructed instance
NewIndex == [documents |-> << >>, tokenizedDocs |-> EmptyMap,
             avgDocLength |-> EmptyMap, dfTable |-> EmptyMap, idfCache |-> EmptyMap]

\* config.k1 ?? 1.5, config.b ?? 0.75, config.fieldWeights ?? { ... }
K1Of(config) == IF "k1" \in DOMAIN config THEN config.k1 ELSE DefaultK1
BOf(config) == IF "b" \in DOMAIN config THEN config.b ELSE DefaultB
FieldWeightsOf(config) ==
    IF "fieldWeights" \in DOMAIN config THEN config.fieldWeights ELSE DefaultFieldWeights

\* the fields of the class declared static: the class declares none
StaticFieldsIdfCache == {"idfCache"}
StaticFields == {}

\* the fields of an instance after another instance's fields became mine
OtherAfter(other, mine) ==
    [f \in DOMAIN other |-> IF f \in StaticFields THEN mine[f] ELSE other[f]]

NoPeer == << >>

\* the second instance after this one's fields became mine
PeerAfter(p, mine) ==
    IF p = NoPeer THEN p ELSE [p EXCEPT !.index = OtherAfter(p.index, mine)]

\* new BM25(config), for the second instance
NewPeer(config, seg) ==
    [k1 |-> K1Of(config), b |-> BOf(config), fieldWeights |-> FieldWeightsOf(config),
     segmenter |-> seg, index |-> NewIndex,
     lastOp |-> "new", lastBatch |-> << >>, lastQuery |-> << >>, lastMax |-> 0,
     lastResult |-> << >>]

\* new BM25(config)
Constructor(config, seg) ==
    /\ k1 = K1Of(config)
    /\ b = BOf(config)
    /\ fieldWeights = FieldWeightsOf(config)
    /\ segmenter = seg
    /\ givenConfig = config
    /\ documents = NewIndex.documents
    /\ tokenizedDocs = NewIndex.tokenizedDocs
    /\ avgDocLength = NewIndex.avgDocLength
    /\ dfTable = NewIndex.dfTable
    /\ idfCache = NewIndex.idfCache
    /\ lastOp = "new"
    /\ lastBatch = << >>
    /\ lastQuery = << >>
    /\ lastMax = 0
    /\ lastResult = << >>
    /\ pinned = << >>

Init == peer = NoPeer /\ handler = HandlerIdle /\ sdk = SdkIdle
    /\ docsHandler = DocsIdle /\ server = ServerIdle /\ \E su \in Setups : Constructor(su[1], su[2])

\* indexDocuments(batch)
IndexDocuments(batch) ==
    LET idx == IndexDocumentsOp(segmenter, Index, batch)
    IN  /\ documents' = idx.documents
        /\ tokenizedDocs' = idx.tokenizedDocs
        /\ avgDocLength' = idx.avgDocLength
        /\ dfTable' = idx.dfTable
        /\ idfCache' = idx.idfCache
        /\ lastOp' = "indexDocuments"
        /\ lastBatch' = << batch >>
        /\ lastQuery' = << >>
        /\ lastMax' = 0
        /\ lastResult' = << >>
        /\ pinned' = << >>
        /\ peer' = PeerAfter(peer, idx)
        /\ UNCHANGED << setup, handler, sdk, docsHandler, server >>

\* AfterSearch of a search that sorts and truncates this.documents itself
AfterSearchKeepsRanking(idx, result) ==
    [idx EXCEPT !.documents = [i \in DOMAIN result |-> result[i].doc]]

\* the fields of this after search returned result: search assigns none of them
AfterSearch(idx, result) == idx

\* search(query, maxResults); with pin the call and its result are also kept aside
Search(query, maxResults, pin) ==
    LET result == SearchOp(k1, b, fieldWeights, segmenter, Index, query, maxResults)
        idx == AfterSearch(Index, result)
    IN  /\ lastResult' = result
        /\ lastOp' = "search"
        /\ lastQuery' = query
        /\ lastMax' = maxResults
        /\ documents' = idx.documents
        /\ tokenizedDocs' = idx.tokenizedDocs
        /\ avgDocLength' = idx.avgDocLength
        /\ dfTable' = idx.dfTable
        /\ idfCache' = idx.idfCache
        /\ pinned' = IF pin
                     THEN << [query |-> query, max |-> maxResults, result |-> result,
                              other |-> FALSE] >>
                     ELSE IF pinned # << >>
                               /\ << query, maxResults >> # << pinned[1].query, pinned[1].max >>
                          THEN << [pinned[1] EXCEPT !.other = TRUE] >>
                          ELSE pinned
        /\ peer' = PeerAfter(peer, idx)
        /\ UNCHANGED << setup, lastBatch, handler, sdk, docsHandler, server >>

Next ==
    \/ \E batch \in AllBatches : IndexDocuments(batch)
    \/ \E query \in Queries, maxResults \in Limits : Search(query, maxResults, FALSE)

Spec == Init /\ [][Next]_vars

\* one configuration, a smaller pool, and search calls kept aside for comparison
InitRepeat == peer = NoPeer /\ handler = HandlerIdle /\ sdk = SdkIdle
    /\ docsHandler = DocsIdle /\ server = ServerIdle /\ Constructor(NoConfig, TRUE)

NextRepeat ==
    \/ \E batch \in SmallBatches : IndexDocuments(batch)
    \/ \E query \in RepeatQueries, maxResults \in Limits : Search(query, maxResults, FALSE)
    \/ /\ pinned = << >>
       /\ \E query \in PinQueries, maxResults \in Limits : Search(query, maxResults, TRUE)

SpecRepeat == InitRepeat /\ [][NextRepeat]_vars

\* instances of several field-weight mappings, documents of one field each,
\* and queries that repeat a term
InitWeights == peer = NoPeer /\ handler = HandlerIdle /\ sdk = SdkIdle
    /\ docsHandler = DocsIdle /\ server = ServerIdle /\ \E su \in WeightSetups : Constructor(su[1], su[2])

NextWeights ==
    \/ \E batch \in WeightBatches : IndexDocuments(batch)
    \/ \E query \in CopyQueries, maxResults \in WeightLimits : Search(query, maxResults, FALSE)

SpecWeights == InitWeights /\ [][NextWeights]_vars

\* instances of several k1 and b, each given one batch of the ranking pool
\* right after construction, as searchDocs and searchSdk do
InitRank == peer = NoPeer /\ handler = HandlerIdle /\ sdk = SdkIdle
    /\ docsHandler = DocsIdle /\ server = ServerIdle /\ \E config \in RankConfigs : Constructor(config, TRUE)

IndexFresh(batch) == lastOp = "new" /\ IndexDocuments(batch)

NextRank ==
    \/ \E batch \in RankBatches : IndexFresh(batch)
    \/ \E query \in RankQueries, maxResults \in RankLimits : Search(query, maxResults, FALSE)

SpecRank == InitRank /\ [][NextRank]_vars

\* the same ASCII texts given to an instance of each tokenizer path
InitPaths == peer = NoPeer /\ handler = HandlerIdle /\ sdk = SdkIdle
    /\ docsHandler = DocsIdle /\ server = ServerIdle /\ \E su \in PathSetups : Constructor(su[1], su[2])

NextPaths ==
    \/ \E batch \in PathBatches : IndexDocuments(batch)
    \/ \E query \in PathQueries, maxResults \in Limits : Search(query, maxResults, FALSE)

SpecPaths == InitPaths /\ [][NextPaths]_vars

\* instances with k1 and b at the ends of their ranges
InitParams == peer = NoPeer /\ handler = HandlerIdle /\ sdk = SdkIdle
    /\ docsHandler = DocsIdle /\ server = ServerIdle /\ \E config \in ParamConfigs : Constructor(config, TRUE)

NextParams ==
    \/ \E batch \in ParamBatches : IndexDocuments(batch)
    \/ \E query \in ParamQueries, maxResults \in Limits : Search(query, maxResults, FALSE)

SpecParams == InitParams /\ [][NextParams]_vars

\* this instance after the second instance's fields became theirs
ThisAfter(theirs) ==
    LET idx == OtherAfter(Index, theirs)
    IN  /\ documents' = idx.documents
        /\ tokenizedDocs' = idx.tokenizedDocs
        /\ avgDocLength' = idx.avgDocLength
        /\ dfTable' = idx.dfTable
        /\ idfCache' = idx.idfCache
        /\ UNCHANGED << setup, lastOp, lastBatch, lastQuery, lastMax, lastResult, pinned,
                        handler, sdk, docsHandler, server >>

\* indexDocuments(batch) on the second instance
PeerIndexDocuments(batch) ==
    LET idx == IndexDocumentsOp(peer.segmenter, peer.index, batch)
    IN  /\ peer' = [peer EXCEPT !.index = idx, !.lastOp = "indexDocuments",
                                !.lastBatch = << batch >>, !.lastQuery = << >>,
                                !.lastMax = 0, !.lastResult = << >>]
        /\ ThisAfter(idx)

\* search(query, maxResults) on the second instance
PeerSearch(query, maxResults) ==
    LET result == SearchOp(peer.k1, peer.b, peer.fieldWeights, peer.segmenter,
                           peer.index, query, maxResults)
        idx == AfterSearch(peer.index, result)
    IN  /\ peer' = [peer EXCEPT !.index = idx, !.lastOp = "search", !.lastQuery = query,
                                !.lastMax = maxResults, !.lastResult = result]
        /\ ThisAfter(idx)

\* the instance of a searchDocs call and the instance of a searchSdk call,
\* their indexDocuments and search calls in any interleaving
InitTwo ==
    Constructor(DocsConfig, TRUE) /\ peer = NewPeer(SdkConfig, TRUE) /\ handler = HandlerIdle /\ sdk = SdkIdle
    /\ docsHandler = DocsIdle /\ server = ServerIdle

NextTwo ==
    \/ \E batch \in SmallBatches : IndexDocuments(batch)
    \/ \E query \in PinQueries, maxResults \in WeightLimits : Search(query, maxResults, FALSE)
    \/ \E batch \in SmallBatches : PeerIndexDocuments(batch)
    \/ \E query \in PinQueries, maxResults \in WeightLimits : PeerSearch(query, maxResults)

SpecTwo == InitTwo /\ [][NextTwo]_vars

\* the search_sdk handler up to its first await: the request for the mapping is sent
SdkStarted(maxResults) ==
    [HandlerIdle EXCEPT !.pc = "fetchMapping", !.max = maxResults,
                        !.log = << Ev("fetch", MappingUrl) >>]

\* handler(params) of search_sdk
Invoke(maxResults) ==
    /\ handler.pc \in {"idle", "done"}
    /\ handler' = SdkStarted(maxResults)
    /\ UNCHANGED << ranker, sdk, docsHandler, server >>

\* fetchTextWithTimeout(mappingUrl) ends: with a text of n per-SDK URLs, or by
\* throwing (a status that is not ok, a network error, the timer's abort)
MappingResponse(outcome, n) ==
    /\ handler.pc = "fetchMapping"
    /\ handler' =
          IF outcome = "ok"
          THEN WithMapping([handler EXCEPT !.source = "remote",
                                          !.log = Append(@, Ev("ok", MappingUrl))], n)
          ELSE OnMappingFailure([handler EXCEPT !.log = Append(@, Ev("fail", MappingUrl))])
    /\ UNCHANGED << ranker, sdk, docsHandler, server >>

\* readFile(localPath) ends: with a text of n per-SDK URLs, or by throwing
LocalRead(ok, n) ==
    /\ handler.pc = "readLocal"
    /\ handler' =
          IF ok
          THEN WithMapping([handler EXCEPT !.source = "local",
                                          !.log = Append(@, Ev("ok", LocalPath))], n)
          ELSE OnLocalFailure([handler EXCEPT !.log = Append(@, Ev("fail", LocalPath))])
    /\ UNCHANGED << ranker, sdk, docsHandler, server >>

\* the request for the i-th per-SDK llms.txt ends; after the last one Promise.all resolves
SdkResponse(i, outcome) ==
    /\ handler.pc = "fetchSdks"
    /\ i \in handler.pending
    /\ LET h == [handler EXCEPT
                    !.pending = @ \ {i},
                    !.contents = (i :> outcome[2]) @@ @,
                    !.log = Append(@, Ev(IF outcome[1] THEN "ok" ELSE "fail", SdkUrl(i)))]
       IN  handler' = IF h.pending = {} THEN AfterSdks(h) ELSE h
    /\ UNCHANGED << ranker, sdk, docsHandler, server >>

\* fetchSdkContent of the j-th result ends; a rejection would reject Promise.all
\* at once, and after the last text Promise.all resolves
SourceResponse(j, outcome) ==
    /\ handler.pc = "fetchSources"
    /\ j \in handler.sources
    /\ LET code == FetchSdkContent(outcome)
           h == [handler EXCEPT
                    !.sources = @ \ {j},
                    !.log = Append(@, Ev(IF outcome = "ok" THEN "ok" ELSE "fail",
                                         SourceUrl(j)))]
           kept == [h EXCEPT !.codes = (j :> [outcome |-> outcome, text |-> code.text]) @@ @]
       IN  handler' = IF code.threw THEN Throw(h)
                      ELSE IF kept.sources = {} THEN Return(kept, "results")
                      ELSE kept
    /\ UNCHANGED << ranker, sdk, docsHandler, server >>

\* handler(params) of search_docs: up to the first await, the request for the index is sent
DocsStarted(maxResults) ==
    [DocsIdle EXCEPT !.pc = "fetchIndex", !.max = maxResults,
                     !.log = << Ev("fetch", IndexUrl) >>]

DocsInvoke(maxResults) ==
    /\ docsHandler.pc \in {"idle", "done"}
    /\ docsHandler' = DocsStarted(maxResults)
    /\ UNCHANGED << ranker, handler, sdk, server >>

\* fetch(llmsUrl) and response.text() end: with a text of n links that searchDocs
\* ranks, or with an error (a status that is not ok is thrown as an ApiError)
IndexResponse(outcome, n, ranking) ==
    /\ docsHandler.pc = "fetchIndex"
    /\ docsHandler' =
          IF outcome = "ok"
          THEN WithIndex([docsHandler EXCEPT !.log = Append(@, Ev("ok", IndexUrl))], n, ranking)
          ELSE DocsThrow([docsHandler EXCEPT !.log = Append(@, Ev("fail", IndexUrl))])
    /\ UNCHANGED << ranker, handler, sdk, server >>

\* fetchDocContent of the result the loop is at ends
PageResponse(outcome) ==
    /\ docsHandler.pc = "fetchPage"
    /\ LET link == docsHandler.results[Len(docsHandler.output) + 1]
           content == FetchDocContent(outcome)
           d == [docsHandler EXCEPT !.log = Append(@, Ev(IF outcome = "ok" THEN "ok" ELSE "fail",
                                                 PageUrl(link)))]
       IN  docsHandler' = IF content.threw THEN DocsThrow(d)
                   ELSE NextPage([d EXCEPT !.output =
                                     Append(@, [link |-> link, outcome |-> outcome,
                                                content |-> content.text])])
    /\ UNCHANGED << ranker, handler, sdk, server >>

InitDocs ==
    Constructor(DocsConfig, TRUE) /\ peer = NoPeer /\ handler = HandlerIdle /\ sdk = SdkIdle
    /\ docsHandler = DocsIdle /\ server = ServerIdle

NextDocs ==
    \/ \E maxResults \in {1, MaxUrls} : DocsInvoke(maxResults)
    \/ \E outcome \in IndexOutcomes, n \in 0..MaxUrls :
          \E ranking \in Rankings(n, docsHandler.max) : IndexResponse(outcome, n, ranking)
    \/ \E outcome \in ContentOutcomes : PageResponse(outcome)

SpecDocs == InitDocs /\ [][NextDocs]_vars

\* a tools/call request arrives: the handler runs up to its first await, and so
\* does the tool's handler when it is called; docsHandler and handler are the
\* invocations of this request
CallTool(tool, valid, maxResults) ==
    /\ server.pc \in {"idle", "done"}
    /\ LET s == Dispatch(tool, valid)
       IN  /\ server' = s
           /\ docsHandler' = IF s.calls = 1 /\ tool = "search_docs" THEN DocsStarted(maxResults)
                      ELSE DocsIdle
           /\ handler' = IF s.calls = 1 /\ tool = "search_sdk" THEN SdkStarted(maxResults)
                         ELSE HandlerIdle
    /\ UNCHANGED << ranker, sdk >>

\* the tool's handler has settled: its text is the response, its error goes
\* through the catch
ToolSettled ==
    /\ server.pc = "await"
    /\ Awaited.pc = "done"
    /\ server' = [server EXCEPT
                    !.pc = "done",
                    !.response = IF Awaited.outcome \in ErrorClasses
                                 THEN ErrorResponse(Awaited.outcome)
                                 ELSE TextResponse(Awaited.outcome)]
    /\ UNCHANGED << ranker, handler, sdk, docsHandler >>

InitServer ==
    Constructor(NoConfig, TRUE) /\ peer = NoPeer /\ handler = HandlerIdle /\ sdk = SdkIdle
    /\ docsHandler = DocsIdle /\ server = ServerIdle

NextServer ==
    \/ \E tool \in Tools \cup {"other"}, valid \in BOOLEAN, maxResults \in {1, MaxUrls} :
          CallTool(tool, valid, maxResults)
    \/ ToolSettled
    \/ \E outcome \in IndexOutcomes, n \in 0..MaxUrls :
          \E ranking \in Rankings(n, docsHandler.max) : IndexResponse(outcome, n, ranking)
    \/ \E outcome \in ContentOutcomes : PageResponse(outcome)
    \/ \E outcome \in MappingOutcomes, n \in 0..MaxUrls : MappingResponse(outcome, n)
    \/ \E ok \in BOOLEAN, n \in 0..MaxUrls : LocalRead(ok, n)
    \/ \E i \in 1..MaxUrls, outcome \in SdkOutcomes : SdkResponse(i, outcome)
    \/ \E j \in 1..MaxUrls, outcome \in SdkContentOutcomes : SourceResponse(j, outcome)

SpecServer == InitServer /\ [][NextServer]_vars

\* the handler has the contents of the per-SDK requests: it parses them, once
ParseContents(contents) ==
    /\ ~sdk.parsed
    /\ sdk' = [SdkIdle EXCEPT !.parsed = TRUE, !.contents = contents,
                              !.entries = ParseAllSdk(contents)]
    /\ UNCHANGED << ranker, handler, docsHandler, server >>

\* searchSdk(entries, query, platform, maxResults) in a runtime with (seg) or
\* without a segmenter: whether an instance was built, its fields, and the entries returned
SearchSdkOp(seg, entries, query, platform, maxResults) ==
    LET filteredEntries == FilterByPlatform(entries, platform)
        docs == SdkDocuments(filteredEntries)
        idx == IndexDocumentsOp(seg, NewIndex, docs)
        results == SearchOp(K1Of(SdkConfig), BOf(SdkConfig), FieldWeightsOf(SdkConfig),
                            seg, idx, query, maxResults)
    IN  IF Len(filteredEntries) = 0
        THEN [ranked |-> FALSE, entries |-> << >>]
        ELSE [ranked |-> TRUE, documents |-> docs, index |-> idx, results |-> results,
              entries |-> [i \in DOMAIN results |->
                              filteredEntries[ParseInt(results[i].id, Len(filteredEntries))]]]

\* the handler calls searchSdk on the parsed entries, once, and picks its report
SearchSdk(query, platform, maxResults) ==
    /\ sdk.parsed /\ ~sdk.searched
    /\ Len(sdk.entries) # 0
    /\ \E out \in {SearchSdkOp(segmenter, sdk.entries, query, platform, maxResults)} :
           /\ sdk' = [sdk EXCEPT !.searched = TRUE, !.query = query, !.platform = platform,
                                 !.max = maxResults, !.results = out.entries,
                                 !.report = IF Len(out.entries) = 0
                                            THEN "No Results Found" ELSE "Search Results"]
           /\ IF out.ranked
              THEN /\ k1' = K1Of(SdkConfig)
                   /\ b' = BOf(SdkConfig)
                   /\ fieldWeights' = FieldWeightsOf(SdkConfig)
                   /\ givenConfig' = SdkConfig
                   /\ documents' = out.index.documents
                   /\ tokenizedDocs' = out.index.tokenizedDocs
                   /\ avgDocLength' = out.index.avgDocLength
                   /\ dfTable' = out.index.dfTable
                   /\ idfCache' = out.index.idfCache
                   /\ lastOp' = "search"
                   /\ lastBatch' = << out.documents >>
                   /\ lastQuery' = query
                   /\ lastMax' = maxResults
                   /\ lastResult' = out.results
                   /\ UNCHANGED << segmenter, pinned, peer >>
              ELSE UNCHANGED ranker
    /\ UNCHANGED << handler, docsHandler, server >>

\* the entries of one per-SDK file, searched under every platform filter
InitSearchSdk ==
    Constructor(SdkConfig, TRUE) /\ peer = NoPeer /\ handler = HandlerIdle /\ sdk = SdkIdle
    /\ docsHandler = DocsIdle /\ server = ServerIdle

NextSearchSdk ==
    \/ ~sdk.parsed /\ \E contents \in SearchContents : ParseContents(contents)
    \/ \E query \in SdkQueries, platform \in SdkPlatforms, maxResults \in WeightLimits :
          SearchSdk(query, platform, maxResults)

SpecSearchSdk == InitSearchSdk /\ [][NextSearchSdk]_vars

InitParse == Constructor(SdkConfig, TRUE) /\ peer = NoPeer /\ handler = HandlerIdle /\ sdk = SdkIdle
    /\ docsHandler = DocsIdle /\ server = ServerIdle

\* the contents of at most MaxUrls per-SDK files of at most MaxLines lines together
NextParse ==
    /\ ~sdk.parsed
    /\ \E lines \in LineSeqs, m \in 1..MaxUrls :
          \E cut \in CutsOf(Len(lines), m) : ParseContents(CutInto(lines, m, cut))

SpecParse == InitParse /\ [][NextParse]_vars

InitSdk == Constructor(SdkConfig, TRUE) /\ peer = NoPeer /\ handler = HandlerIdle /\ sdk = SdkIdle
    /\ docsHandler = DocsIdle /\ server = ServerIdle

NextSdk ==
    \/ \E maxResults \in {1, MaxUrls} : Invoke(maxResults)
    \/ \E outcome \in MappingOutcomes, n \in 0..MaxUrls : MappingResponse(outcome, n)
    \/ \E ok \in BOOLEAN, n \in 0..MaxUrls : LocalRead(ok, n)
    \/ \E i \in 1..MaxUrls, outcome \in SdkOutcomes : SdkResponse(i, outcome)
    \/ \E j \in 1..MaxUrls, outcome \in SdkContentOutcomes : SourceResponse(j, outcome)

SpecSdk == InitSdk /\ [][NextSdk]_vars

-----------------------------------------------------------------------------
(* Properties *)

\* the batch of the last indexDocuments call; empty when there was none
BatchDocs == IF lastBatch = << >> THEN << >> ELSE lastBatch[1]

\* the tokens of the last query
LastTerms == Tokenize(segmenter, lastQuery)

\* term is a token of some field of doc
Occurs(doc, term) ==
    \E f \in DOMAIN doc.fields :
        \E j \in DOMAIN Tokenize(segmenter, doc.fields[f]) :
            Tokenize(segmenter, doc.fields[f])[j] = term

\* some field of doc contains some token of terms
Matches(doc, terms) == \E i \in DOMAIN terms : Occurs(doc, terms[i])

MatchingDocs == {i \in DOMAIN BatchDocs : Matches(BatchDocs[i], LastTerms)}

\* every token the tokenizer yields for a text of the model
AllTerms ==
    UNION {{TokenTable[seg][text][i] : i \in DOMAIN TokenTable[seg][text]} :
              << seg, text >> \in BOOLEAN \X AllTexts}

\* the scored documents of the last query before sorting and truncation
AllScored == Scores(k1, b, fieldWeights, Index, LastTerms, 1)

ResultIds == {lastResult[i].id : i \in DOMAIN lastResult}

\* C1: for maxResults >= 1 the list search returns is ordered by score, highest
\* first: each entry's score is at least the score of the entry after it.
C1_SortedByScore ==
    (lastOp = "search" /\ lastMax >= 1) =>
        \A i \in 1..(Len(lastResult) - 1) : lastResult[i].score >= lastResult[i + 1].score

\* a search whose two results come back in the reverse of their batch order
C1_Witness ==
    /\ lastOp = "search" /\ lastMax >= 1
    /\ Len(lastResult) >= 2 /\ Len(documents) >= 2
    /\ lastResult[1].score > lastResult[2].score
    /\ lastResult[1].id = documents[2].id
    /\ lastResult[2].id = documents[1].id

\* C2: every entry search returns has a score above 0 and belongs to a document
\* one of whose fields contains a query token; when no document of the batch
\* contains a query token the result is the empty list.
C2_OnlyPositiveMatches ==
    lastOp = "search" =>
        /\ \A i \in DOMAIN lastResult :
              /\ lastResult[i].score > 0
              /\ \E j \in DOMAIN BatchDocs :
                    /\ BatchDocs[j].id = lastResult[i].id
                    /\ Matches(BatchDocs[j], LastTerms)
        /\ (MatchingDocs = {} => lastResult = << >>)

\* a search with room for the whole batch that returns some documents but not all
C2_Witness ==
    /\ lastOp = "search" /\ LastTerms # << >>
    /\ lastMax >= Len(documents)
    /\ Len(lastResult) >= 1 /\ Len(lastResult) < Len(documents)

\* C3: search returns the empty list for the empty query, a whitespace-only
\* query, a punctuation-only query and a query of single non-CJK letters,
\* whatever the index holds and whatever maxResults is.
C3_BlankQueryGivesEmpty ==
    (lastOp = "search" /\ lastQuery \in BlankQueries) => lastResult = << >>

\* the query "a b c" against a batch that holds the letter c as a word of a field
C3_Witness ==
    /\ lastOp = "search" /\ lastQuery = Q_letters /\ lastMax >= 1
    /\ \E i \in DOMAIN documents : documents[i] = Doc2

\* C4: once indexDocuments([]) was the last indexing call, every search returns
\* the empty list, also when an earlier batch was not empty.
C4_EmptyBatchGivesEmpty ==
    (lastOp = "search" /\ lastBatch = << << >> >>) => lastResult = << >>

\* a search for real terms after indexDocuments([]) on an instance that held a batch before
C4_Witness ==
    /\ lastOp = "search" /\ lastBatch = << << >> >>
    /\ DOMAIN avgDocLength # {}
    /\ LastTerms # << >> /\ lastMax >= 1

\* C5: for maxResults >= 1 search returns min(maxResults, M) entries, M being
\* the number of documents matched by the query, and no matching document left
\* out has a score above the score of a returned one.
C5_TruncatedToBest ==
    (lastOp = "search" /\ lastMax >= 1) =>
        /\ Len(lastResult) = Min(lastMax, Cardinality(MatchingDocs))
        /\ \A i \in DOMAIN AllScored :
              AllScored[i].id \notin ResultIds =>
                  \A j \in DOMAIN lastResult : AllScored[i].score <= lastResult[j].score

\* a search that leaves out a matching document of lower score
C5_Witness ==
    /\ lastOp = "search" /\ lastMax >= 1
    /\ Cardinality(MatchingDocs) > lastMax
    /\ \E i \in DOMAIN AllScored :
          /\ AllScored[i].id \notin ResultIds
          /\ AllScored[i].score < lastResult[Len(lastResult)].score

\* C6: search with maxResults 0 or negative returns the empty list.
C6_NonPositiveLimitGivesEmpty ==
    (lastOp = "search" /\ lastMax <= 0) => lastResult = << >>

\* C7: search changes none of the held documents, token sequences, averages
\* and IDF values, and a search call repeated after any other search calls
\* returns the list it returned before.
C7_SearchRepeatable ==
    [][lastOp' = "search" =>
          /\ documents' = documents
          /\ tokenizedDocs' = tokenizedDocs
          /\ avgDocLength' = avgDocLength
          /\ idfCache' = idfCache
          /\ (pinned # << >> /\ lastQuery' = pinned[1].query /\ lastMax' = pinned[1].max)
                => lastResult' = pinned[1].result]_vars

\* a search repeated after a different search call, with a result of two entries
C7_Witness ==
    /\ lastOp = "search" /\ pinned # << >>
    /\ pinned[1].other
    /\ lastQuery = pinned[1].query /\ lastMax = pinned[1].max
    /\ Len(lastResult) >= 2

\* C8: after indexDocuments(B1) and indexDocuments(B2), search returns what a
\* new instance of the same configuration returns after indexDocuments(B2) alone.
C8_ReindexEqualsFresh ==
    (lastOp = "search" /\ lastBatch # << >>) =>
        lastResult = SearchOp(k1, b, fieldWeights, segmenter,
                              IndexDocumentsOp(segmenter, NewIndex, BatchDocs),
                              lastQuery, lastMax)

\* a non-empty result on an instance that still holds the average of a field of an earlier batch
C8_Witness ==
    /\ lastOp = "search" /\ lastBatch # << >>
    /\ lastResult # << >>
    /\ DOMAIN avgDocLength # BatchFields(BatchDocs)

\* C9: for a batch of N >= 1 documents every term of the batch is held with a
\* document frequency between 1 and N and an IDF that is not negative, the
\* argument of the logarithm being at least 1; a term of no document has IDF 0.
C9_IdfNotNegative ==
    Len(BatchDocs) >= 1 =>
        \A t \in AllTerms :
            IF \E i \in DOMAIN BatchDocs : Occurs(BatchDocs[i], t)
            THEN /\ t \in DOMAIN idfCache /\ t \in DOMAIN dfTable
                 /\ 1 <= dfTable[t] /\ dfTable[t] <= Len(BatchDocs)
                 /\ (2 * Len(BatchDocs) - 2 * dfTable[t] + 1) + (2 * dfTable[t] + 1)
                        >= 2 * dfTable[t] + 1
                 /\ idfCache[t] >= 0
                 /\ GetIDF(idfCache, t) >= 0
            ELSE GetIDF(idfCache, t) = 0

\* a batch of two or more documents with a term that occurs in every one of them
C9_Witness ==
    /\ Len(BatchDocs) >= 2
    /\ \E t \in DOMAIN dfTable : dfTable[t] = Len(BatchDocs) /\ idfCache[t] > 0
    /\ \E t \in AllTerms : t \notin DOMAIN idfCache

\* C10: the document frequency of a term is the number of documents of the
\* batch that contain it, however often and in however many fields, and its
\* IDF is computed from that frequency and the number of documents of the batch.
C10_DfCountsDocumentsOnce ==
    lastBatch # << >> =>
        \A t \in DOMAIN dfTable :
            LET df == Cardinality({i \in DOMAIN BatchDocs : Occurs(BatchDocs[i], t)})
            IN  /\ dfTable[t] = df
                /\ idfCache[t] = IdfOf(Len(BatchDocs), df)

\* a batch with a term in two fields of one document and twice in one field of a document
C10_Witness ==
    /\ lastBatch # << >>
    /\ \E t \in DOMAIN dfTable :
          /\ \E id \in DOMAIN tokenizedDocs :
                Cardinality({f \in DOMAIN tokenizedDocs[id] :
                                TermFreq(tokenizedDocs[id][f], t) >= 1}) >= 2
          /\ \E id \in DOMAIN tokenizedDocs :
                \E f \in DOMAIN tokenizedDocs[id] : TermFreq(tokenizedDocs[id][f], t) >= 2

-----------------------------------------------------------------------------
(* Field weights and repeated query terms *)

\* the values of a function added up
SumOf(fn) ==
    LET sum[T \in SUBSET DOMAIN fn] ==
            IF T = {} THEN 0
            ELSE LET x == CHOOSE y \in T : TRUE IN fn[x] + sum[T \ {x}]
    IN  sum[DOMAIN fn]

\* the raw BM25 score of field f of the held document id for the last query
FieldRaw(id, f) ==
    CalculateFieldScore(k1, b, idfCache, LastTerms, tokenizedDocs[id][f],
                        AvgOrOne(avgDocLength, f), 1)

\* the weight of a field as configured: the mapping's value, 1.0 for an absent name
ConfiguredWeight(f) == IF f \in DOMAIN fieldWeights THEN fieldWeights[f] ELSE 10

\* the total of a held document with every field weighted as configured
ConfiguredTotal(id) ==
    SumOf([f \in DOMAIN tokenizedDocs[id] |-> FieldRaw(id, f) * ConfiguredWeight(f)])

\* C11: search multiplies the raw score of every field by the weight configured
\* for its name, weight 0 included (such a field adds nothing), and by 1.0 only
\* for a name absent from the mapping: a document is returned with that total
\* when the total is positive and is not returned when it is 0.
C11_ConfiguredWeightApplied ==
    (lastOp = "search" /\ lastMax >= Len(documents) /\ LastTerms # << >>) =>
        \A i \in DOMAIN documents :
            LET total == ConfiguredTotal(documents[i].id)
            IN  IF total > 0
                THEN \E j \in DOMAIN lastResult :
                        /\ lastResult[j].id = documents[i].id
                        /\ lastResult[j].score = total
                ELSE documents[i].id \notin ResultIds

\* the default weights as the constructor documents them, in tenths
DocumentedDefault(f) ==
    CASE f = "title" -> 20
      [] f = "description" -> 10
      [] f = "content" -> 8
      [] f = "url" -> 5
      [] OTHER -> 10

\* the result entry belongs to a document of one field
SingleField(e) == Cardinality(DOMAIN e.doc.fields) = 1
OnlyField(e) == CHOOSE f \in DOMAIN e.doc.fields : TRUE

\* two result entries of one-field documents with the same text and the same field average
SameTextAndStatistics(x, y) ==
    /\ SingleField(x) /\ SingleField(y)
    /\ x.doc.fields[OnlyField(x)] = y.doc.fields[OnlyField(y)]
    /\ avgDocLength[OnlyField(x)] = avgDocLength[OnlyField(y)]

\* C12 as stated: an instance constructed with no configuration has k1 = 1.5,
\* b = 0.75 and the weight 1.0 for every field name, so the same text with the
\* same length statistics scores the same under any field name.
C12_NoConfigAllWeightsOne ==
    givenConfig = NoConfig =>
        /\ k1 = 6 /\ b = 3
        /\ \A f \in FieldNames : WeightOf(fieldWeights, f) = 10
        /\ lastOp = "search" =>
              \A i, j \in DOMAIN lastResult :
                  SameTextAndStatistics(lastResult[i], lastResult[j]) =>
                      lastResult[i].score = lastResult[j].score

\* C12 amended: an instance constructed with no configuration has k1 = 1.5,
\* b = 0.75 and the weights title 2.0, description 1.0, content 0.8, url 0.5
\* and 1.0 for any other name, so the same text with the same length
\* statistics scores in the proportion of the weights of the two field names.
C12_NoConfigDefaultWeights ==
    givenConfig = NoConfig =>
        /\ k1 = 6 /\ b = 3
        /\ \A f \in FieldNames : WeightOf(fieldWeights, f) = DocumentedDefault(f)
        /\ lastOp = "search" =>
              \A i, j \in DOMAIN lastResult :
                  SameTextAndStatistics(lastResult[i], lastResult[j]) =>
                      lastResult[i].score * DocumentedDefault(OnlyField(lastResult[j]))
                          = lastResult[j].score * DocumentedDefault(OnlyField(lastResult[i]))

\* the same word found in a title and in a field of no default weight, title scored twice as high
C12_Witness ==
    /\ givenConfig = NoConfig /\ lastOp = "search" /\ Len(lastResult) = 2
    /\ lastResult[1].id = "title" /\ lastResult[2].id = "text"
    /\ lastResult[1].score = 2 * lastResult[2].score

\* the last query consists of copies of one term
OneTermCopies == LastTerms # << >> /\ \A i \in DOMAIN LastTerms : LastTerms[i] = LastTerms[1]

\* what search returns for the term of the last query given once
OnceResult == SearchOp(k1, b, fieldWeights, segmenter, Index, LastTerms[1], lastMax)

\* C13: for a query of k copies of one term search returns the documents it
\* returns for the term given once, each with exactly k times the score.
C13_RepeatedTermScoresKTimes ==
    (lastOp = "search" /\ OneTermCopies) =>
        /\ Len(lastResult) = Len(OnceResult)
        /\ \A i \in DOMAIN lastResult :
              /\ lastResult[i].id = OnceResult[i].id
              /\ lastResult[i].score = Len(LastTerms) * OnceResult[i].score

\* three copies of a term found in two fields of a document, under unequal weights
C13_Witness ==
    /\ lastOp = "search" /\ OneTermCopies /\ Len(LastTerms) = 3
    /\ givenConfig = DocsConfig
    /\ Len(lastResult) = 2
    /\ \E i \in DOMAIN lastResult :
          /\ lastResult[i].doc = Doc1
          /\ FieldRaw("1", "title") > 0 /\ FieldRaw("1", "description") > 0

-----------------------------------------------------------------------------
(* Term frequency, document frequency and field length *)

\* the score an id has in a result list, 0 when the list does not hold it
ScoreIn(result, id) ==
    IF \E j \in DOMAIN result : result[j].id = id
    THEN result[CHOOSE j \in DOMAIN result : result[j].id = id].score
    ELSE 0

\* the position an id has in a result list, 0 when the list does not hold it
PositionIn(result, id) ==
    IF \E j \in DOMAIN result : result[j].id = id
    THEN CHOOSE j \in DOMAIN result : result[j].id = id
    ELSE 0

\* the tokens of the field text of the i-th document of the batch
TextTokens(i) ==
    IF "text" \in DOMAIN tokenizedDocs[documents[i].id]
    THEN tokenizedDocs[documents[i].id]["text"] ELSE << >>

\* the last call was a search for one term that truncated nothing
OneTermFullSearch ==
    lastOp = "search" /\ Len(LastTerms) = 1 /\ lastMax >= Len(documents)

\* C14: with k1 > 0 and 0 <= b <= 1, among documents of one batch whose field
\* has the same length the score for a term grows strictly with the term
\* frequency (0 for tf = 0, positive for tf >= 1), the gain of one more
\* occurrence shrinks strictly as tf grows, and the contribution stays
\* below IDF * (k1 + 1).
C14_TermFrequencySaturates ==
    (OneTermFullSearch /\ k1 > 0 /\ b >= 0 /\ b <= 4) =>
        LET t == LastTerms[1]
            tf(i) == TermFreq(TextTokens(i), t)
            sc(i) == ScoreIn(lastResult, documents[i].id)
            next(i, j) == Len(TextTokens(j)) = Len(TextTokens(i)) /\ tf(j) = tf(i) + 1
        IN  \A i \in DOMAIN documents :
                /\ tf(i) = 0 => sc(i) = 0
                /\ tf(i) >= 1 =>
                      /\ sc(i) > 0
                      /\ 4 * sc(i) < GetIDF(idfCache, t) * (k1 + 4) * WeightOf(fieldWeights, "text")
                /\ \A j \in DOMAIN documents :
                      next(i, j) =>
                          /\ sc(j) > sc(i)
                          /\ \A g \in DOMAIN documents :
                                next(j, g) => sc(g) - sc(j) < sc(j) - sc(i)

\* a batch that holds the term 0, 1, 2 and 3 times in fields of one length
C14_Witness ==
    /\ OneTermFullSearch /\ Len(lastResult) >= 3
    /\ \E i, j, g, h \in DOMAIN documents :
          /\ Len(TextTokens(i)) = 3 /\ Len(TextTokens(j)) = 3
          /\ Len(TextTokens(g)) = 3 /\ Len(TextTokens(h)) = 3
          /\ TermFreq(TextTokens(i), LastTerms[1]) = 0
          /\ TermFreq(TextTokens(j), LastTerms[1]) = 1
          /\ TermFreq(TextTokens(g), LastTerms[1]) = 2
          /\ TermFreq(TextTokens(h), LastTerms[1]) = 3

\* what search returns for the one-term query t with the last limit
ResultFor(t) == SearchOp(k1, b, fieldWeights, segmenter, Index, t, lastMax)

\* the token sequence of the field text of the document a result entry belongs to
EntryTokens(e) == tokenizedDocs[e.id]["text"]

\* C15: within one batch a term held by fewer documents has a strictly greater
\* IDF than a term held by more, and a search for the rarer term scores a
\* document strictly higher than a search for the commoner term scores a
\* document of the same field length and term frequency.
C15_RarerTermScoresHigher ==
    (OneTermFullSearch /\ LastTerms[1] \in DOMAIN dfTable) =>
        LET rare == LastTerms[1]
        IN  \A common \in DOMAIN dfTable :
                dfTable[rare] < dfTable[common] =>
                    /\ idfCache[rare] > idfCache[common]
                    /\ \A i \in DOMAIN lastResult, j \in DOMAIN ResultFor(common) :
                          LET x == lastResult[i]
                              y == ResultFor(common)[j]
                          IN  (/\ Len(EntryTokens(x)) = Len(EntryTokens(y))
                               /\ TermFreq(EntryTokens(x), rare)
                                    = TermFreq(EntryTokens(y), common))
                                  => x.score > y.score

\* a search for a term of one of four documents, another term being in all four,
\* with a document that holds each of the two terms once
C15_Witness ==
    /\ OneTermFullSearch /\ Len(documents) = 4
    /\ LastTerms[1] \in DOMAIN dfTable /\ dfTable[LastTerms[1]] = 1
    /\ Len(lastResult) = 1
    /\ \E common \in DOMAIN dfTable :
          /\ dfTable[common] = 4
          /\ TermFreq(EntryTokens(lastResult[1]), common)
                = TermFreq(EntryTokens(lastResult[1]), LastTerms[1])

\* C16: of two documents of one batch that hold the query term equally often in
\* the same field, with k1 > 0, the one of the shorter field scores strictly
\* higher and is ranked first when 0 < b <= 1, and the two score the same when
\* b = 0.
C16_ShorterFieldScoresHigher ==
    (OneTermFullSearch /\ k1 > 0) =>
        LET t == LastTerms[1]
            tf(i) == TermFreq(TextTokens(i), t)
            sc(i) == ScoreIn(lastResult, documents[i].id)
            pos(i) == PositionIn(lastResult, documents[i].id)
        IN  \A i, j \in DOMAIN documents :
                (tf(i) >= 1 /\ tf(i) = tf(j) /\ Len(TextTokens(i)) < Len(TextTokens(j))) =>
                    /\ (b > 0 /\ b <= 4) => (sc(i) > sc(j) /\ pos(i) >= 1 /\ pos(i) < pos(j))
                    /\ b = 0 => sc(i) = sc(j)

\* with b > 0, the document of the shorter field comes later in the batch and first in the result
C16_Witness ==
    /\ OneTermFullSearch /\ k1 > 0 /\ b > 0
    /\ \E i, j \in DOMAIN documents :
          /\ i < j
          /\ TermFreq(TextTokens(i), LastTerms[1]) = 1
          /\ TermFreq(TextTokens(j), LastTerms[1]) = 1
          /\ Len(TextTokens(j)) < Len(TextTokens(i))
          /\ PositionIn(lastResult, documents[j].id) = 1
          /\ PositionIn(lastResult, documents[i].id) > 1

-----------------------------------------------------------------------------
(* Empty fields and the tokens emitted *)

\* the fields of a document whose text yields at least one token
FilledFields(doc) ==
    {f \in DOMAIN doc.fields : Tokenize(segmenter, doc.fields[f]) # << >>}

\* the weighted scores of the filled fields of a document for the last query, added up
FilledTotal(doc) ==
    SumOf([f \in FilledFields(doc) |->
              CalculateFieldScore(k1, b, idfCache, LastTerms,
                                  Tokenize(segmenter, doc.fields[f]),
                                  AvgOrOne(avgDocLength, f), 1)
                  * WeightOf(fieldWeights, f)])

\* C17: indexDocuments takes in every document of a batch whose documents
\* differ in their fields or have fields of empty text, and search scores it:
\* each document is held with exactly its own fields, its total is the sum
\* over its fields that yield tokens (a field it lacks or an empty one adds
\* 0), and a document without any token is never returned.
C17_EmptyFieldsAddNothing ==
    /\ lastBatch # << >> =>
          \A i \in DOMAIN BatchDocs :
              /\ BatchDocs[i].id \in DOMAIN tokenizedDocs
              /\ DOMAIN tokenizedDocs[BatchDocs[i].id] = DOMAIN BatchDocs[i].fields
              /\ DOMAIN BatchDocs[i].fields \subseteq DOMAIN avgDocLength
    /\ lastOp = "search" =>
          \A i \in DOMAIN BatchDocs :
              /\ FilledFields(BatchDocs[i]) = {} => BatchDocs[i].id \notin ResultIds
              /\ lastMax >= Len(BatchDocs) =>
                    ScoreIn(lastResult, BatchDocs[i].id) = FilledTotal(BatchDocs[i])

\* a batch of a document without any token and a document with an empty field
\* and fields the other lacks, of which search returns the second only
C17_Witness ==
    /\ lastOp = "search" /\ lastMax >= Len(BatchDocs)
    /\ Len(BatchDocs) = 2
    /\ \E i, j \in DOMAIN BatchDocs :
          /\ FilledFields(BatchDocs[i]) = {}
          /\ DOMAIN BatchDocs[j].fields # DOMAIN BatchDocs[i].fields
          /\ FilledFields(BatchDocs[j]) # {}
          /\ FilledFields(BatchDocs[j]) # DOMAIN BatchDocs[j].fields
          /\ ResultIds = {BatchDocs[j].id}

\* every token held for a document field, and every token of the last query
EmittedTokens ==
    UNION {UNION {{tokenizedDocs[id][f][i] : i \in DOMAIN tokenizedDocs[id][f]} :
                     f \in DOMAIN tokenizedDocs[id]} : id \in DOMAIN tokenizedDocs}
        \cup {LastTerms[i] : i \in DOMAIN LastTerms}

-----------------------------------------------------------------------------
(* Two instances *)

\* the fields of an instance that was given the batches of lastB alone
AloneIndex(seg, lastB) ==
    IF lastB = << >> THEN NewIndex ELSE IndexDocumentsOp(seg, NewIndex, lastB[1])

\* C19: with the instance of a searchDocs call and the instance of a searchSdk
\* call used in any interleaving, the last search of each returned what an
\* instance of the same configuration returns that was given the same batch
\* and query with no other instance around, and each instance holds the
\* documents of its own last batch.
C19_InstancesIndependent ==
    peer # NoPeer =>
        /\ lastOp = "search" =>
              lastResult = SearchOp(k1, b, fieldWeights, segmenter,
                                    AloneIndex(segmenter, lastBatch), lastQuery, lastMax)
        /\ peer.lastOp = "search" =>
              peer.lastResult = SearchOp(peer.k1, peer.b, peer.fieldWeights, peer.segmenter,
                                         AloneIndex(peer.segmenter, peer.lastBatch),
                                         peer.lastQuery, peer.lastMax)
        /\ documents = BatchDocs
        /\ peer.index.documents = (IF peer.lastBatch = << >> THEN << >> ELSE peer.lastBatch[1])

\* both instances searched after the other indexed a different batch: the same
\* query got different results from the two
C19_Witness ==
    /\ peer # NoPeer /\ lastOp = "search" /\ peer.lastOp = "search"
    /\ lastBatch # << >> /\ peer.lastBatch # << >> /\ lastBatch # peer.lastBatch
    /\ lastQuery = peer.lastQuery /\ lastMax = peer.lastMax
    /\ Len(lastResult) = 2 /\ Len(peer.lastResult) = 1

-----------------------------------------------------------------------------
(* The requests of the search_sdk handler *)

\* the positions of the record of requests that hold the event
At(op, url) == {p \in DOMAIN handler.log : handler.log[p] = Ev(op, url)}

\* the positions at which a per-SDK llms.txt is requested
SdkRequests ==
    {p \in DOMAIN handler.log :
        handler.log[p].op = "fetch" /\ handler.log[p].url \in SdkUrls}

\* with the mapping content obtained at position q the handler goes on: no
\* per-SDK URL in it is an ApiError, otherwise each of its URLs is requested
ProceedsFrom(q) ==
    /\ handler.pc \notin {"fetchMapping", "readLocal"}
    /\ IF handler.urls = {}
       THEN handler.pc = "done" /\ handler.outcome = "ApiError" /\ SdkRequests = {}
       ELSE \A i \in handler.urls : \E p \in At("fetch", SdkUrl(i)) : p > q

-----------------------------------------------------------------------------
(* The held tables after indexDocuments *)

\* the positions of the batch whose document has the field f
Holders(f) == {i \in DOMAIN BatchDocs : f \in DOMAIN BatchDocs[i].fields}

\* the token counts of field f over the documents of the batch that have it, added up
HeldLengthSum(f) ==
    SumOf([i \in Holders(f) |-> Len(Tokenize(segmenter, BatchDocs[i].fields[f]))])

\* C24: after indexDocuments(B) the held average length of every field name f
\* of B is the sum of the token counts of f over the documents of B that have
\* f divided by the number of those documents (a document without f is left
\* out, one with empty text counts with length 0), and for an average of 0 the
\* scorer divides by 1.
C24_AverageOverHolders ==
    lastBatch # << >> =>
        \A f \in BatchFields(BatchDocs) :
            /\ f \in DOMAIN avgDocLength
            /\ Holders(f) # {}
            /\ avgDocLength[f].den > 0
            /\ avgDocLength[f].num * Cardinality(Holders(f))
                  = avgDocLength[f].den * HeldLengthSum(f)
            /\ AvgOrOne(avgDocLength, f) =
                  (IF HeldLengthSum(f) = 0 THEN [num |-> 1, den |-> 1] ELSE avgDocLength[f])

\* a batch of two documents: a field one of them lacks, and a field both have,
\* one of them with empty text
C24_Witness ==
    /\ Len(BatchDocs) = 2
    /\ \E f \in BatchFields(BatchDocs) :
          Cardinality(Holders(f)) = 1 /\ HeldLengthSum(f) > 0
    /\ \E f \in BatchFields(BatchDocs) :
          /\ Cardinality(Holders(f)) = 2 /\ HeldLengthSum(f) > 0
          /\ \E i \in Holders(f) : Tokenize(segmenter, BatchDocs[i].fields[f]) = << >>

\* the terms of the documents of the batch
BatchTerms ==
    UNION {UNION {{Tokenize(segmenter, BatchDocs[i].fields[f])[n] :
                      n \in DOMAIN Tokenize(segmenter, BatchDocs[i].fields[f])} :
                     f \in DOMAIN BatchDocs[i].fields} : i \in DOMAIN BatchDocs}

\* C25: after any sequence of indexDocuments calls ending with
\* indexDocuments(B) the index holds nothing of an earlier batch: the token
\* table has exactly the ids of B, the IDF table exactly the terms of B, and
\* the table of averages an entry exactly for the field names of B.
C25_NothingOfEarlierBatches ==
    lastBatch # << >> =>
        /\ DOMAIN tokenizedDocs = {BatchDocs[i].id : i \in DOMAIN BatchDocs}
        /\ DOMAIN idfCache = BatchTerms
        /\ DOMAIN avgDocLength = BatchFields(BatchDocs)

-----------------------------------------------------------------------------
(* The two paths of the tokenizer *)

\* the text holds no character outside ASCII
IsAsciiText(text) == \A i \in DOMAIN text : text[i] \notin Hangul

\* the texts the instance was handed: the fields of the batch and the last query
HandedTexts == TextsOf({BatchDocs[i] : i \in DOMAIN BatchDocs}) \cup {lastQuery}

\* what an instance on the other tokenizer path returns for the last batch and search
OtherPathResult ==
    SearchOp(k1, b, fieldWeights, ~segmenter,
             IndexDocumentsOp(~segmenter, NewIndex, BatchDocs), lastQuery, lastMax)

\* C27: for a text of ASCII letters, digits, whitespace and punctuation the
\* segmenter path and the regex path of tokenize return the same tokens, so
\* the result of a search does not depend on whether a segmenter is available.
C27_PathsAgreeOnAscii ==
    /\ \A text \in HandedTexts :
          IsAsciiText(text) => TokenizeSegmenter(text) = TokenizeRegex(text)
    /\ (lastOp = "search" /\ lastBatch # << >>
            /\ \A text \in HandedTexts : IsAsciiText(text))
          => lastResult = OtherPathResult

-----------------------------------------------------------------------------
(* Matching documents are returned *)

\* the total score search computes for the i-th document of the batch
TotalOf(i) ==
    TotalScore(k1, b, fieldWeights, Index, LastTerms, tokenizedDocs[BatchDocs[i].id])

\* C28: with k1 >= 0, 0 <= b <= 1, positive field weights and unique ids, a
\* document with a field that contains a query token has a total score above
\* 0 and is returned by search(q, n) whenever n is at least the number of such
\* documents; the returned ids are pairwise distinct and are ids of documents
\* of the current batch.
C28_MatchingDocumentsReturned ==
    (/\ lastOp = "search" /\ lastBatch # << >>
     /\ k1 >= 0 /\ b >= 0 /\ b <= 4
     /\ \A f \in DOMAIN fieldWeights : fieldWeights[f] > 0
     /\ \A i, j \in DOMAIN BatchDocs : i # j => BatchDocs[i].id # BatchDocs[j].id) =>
        /\ \A i \in MatchingDocs :
              /\ TotalOf(i) > 0
              /\ lastMax >= Cardinality(MatchingDocs) => BatchDocs[i].id \in ResultIds
        /\ \A i, j \in DOMAIN lastResult : i # j => lastResult[i].id # lastResult[j].id
        /\ \A i \in DOMAIN lastResult :
              \E j \in DOMAIN BatchDocs : BatchDocs[j].id = lastResult[i].id

\* with k1 = 0 and b = 1, a query whose tokens are in every document of a batch
\* of two, both returned
C28_Witness ==
    /\ lastOp = "search" /\ k1 = 0 /\ b = 4
    /\ Len(BatchDocs) = 2 /\ Cardinality(MatchingDocs) = 2 /\ lastMax = 2
    /\ \A t \in {LastTerms[i] : i \in DOMAIN LastTerms} : dfTable[t] = 2
    /\ Len(lastResult) = 2

-----------------------------------------------------------------------------
(* Documents of equal score *)

\* the position in the held batch of the document of an id
BatchPosition(id) == CHOOSE i \in DOMAIN documents : documents[i].id = id

\* C29: documents of equal total score appear in the result of search in the
\* order they have in the indexed batch, and of documents of equal score the
\* truncation to maxResults keeps the earliest.
C29_TiesInBatchOrder ==
    lastOp = "search" =>
        /\ \A i, j \in DOMAIN lastResult :
              (i < j /\ lastResult[i].score = lastResult[j].score) =>
                  BatchPosition(lastResult[i].id) < BatchPosition(lastResult[j].id)
        /\ \A n \in DOMAIN AllScored, j \in DOMAIN lastResult :
              (AllScored[n].id \notin ResultIds /\ AllScored[n].score = lastResult[j].score) =>
                  BatchPosition(lastResult[j].id) < BatchPosition(AllScored[n].id)

\* three documents of equal score (b = 0, fields of three lengths), the longest
\* first in the batch and not at its head: search returns the three in batch order
C29_Witness ==
    /\ lastOp = "search" /\ Len(AllScored) = 3 /\ lastMax = MaxLen + 1
    /\ Len(lastResult) = 3
    /\ lastResult[1].score = lastResult[2].score
    /\ lastResult[2].score = lastResult[3].score
    /\ BatchPosition(lastResult[1].id) > 1
    /\ Len(TextTokens(BatchPosition(lastResult[1].id)))
          > Len(TextTokens(BatchPosition(lastResult[2].id)))

-----------------------------------------------------------------------------
(* The platform of a parsed entry *)

\* the places of the parsed contents, << content, line >>, that hold a list
\* entry with a title and a file
EntryPlaces ==
    {pl \in UNION {{<< c, i >> : i \in DOMAIN sdk.contents[c]} : c \in DOMAIN sdk.contents} :
        LET line == sdk.contents[pl[1]][pl[2]]
        IN  line.kind = "entry" /\ line.title # << >> /\ line.file # << >>}

\* place x comes before place y: in an earlier content, or earlier in the same one
Before(x, y) == x[1] < y[1] \/ (x[1] = y[1] /\ x[2] < y[2])

\* the number of a place among the entry places, in the order of reading
PlaceNumber(pl) == Cardinality({x \in EntryPlaces : Before(x, pl)}) + 1

\* the canonical platform of the last "# Platform:" header above a place in its
\* content, unknown when there is none
PlatformAbove(pl) ==
    LET lines == sdk.contents[pl[1]]
        headers == {j \in 1..(pl[2] - 1) : lines[j].kind = "header"}
    IN  IF headers = {} THEN P_unknown
        ELSE LET last == CHOOSE j \in headers : \A n \in headers : n <= j
             IN  CanonicalizePlatformHeader(TrimEnds(lines[last].raw))

\* C30: parseSdkLlmsTxt gives each entry the canonical platform of the nearest
\* "# Platform:" header that precedes it in its file, "unknown" when none
\* does, and keeps the entries in file order; the platform starts again at
\* "unknown" for each per-SDK file, so that no header of one file sets the
\* platform of an entry of another.
C30_PlatformOfNearestHeader ==
    sdk.parsed =>
        /\ Len(sdk.entries) = Cardinality(EntryPlaces)
        /\ \A pl \in EntryPlaces :
              LET entry == sdk.entries[PlaceNumber(pl)]
                  line == sdk.contents[pl[1]][pl[2]]
              IN  /\ entry.platform = PlatformAbove(pl)
                  /\ entry.title = TrimEnds(line.title)
                  /\ entry.file = TrimEnds(line.file)

\* two files: an entry under the header iOS in the first, an entry under no
\* header in the second
C30_Witness ==
    /\ sdk.parsed
    /\ sdk.contents = << << L_ios, L_one >>, << L_two >> >>
    /\ Len(sdk.entries) = 2
    /\ sdk.entries[1].platform = P_ios /\ sdk.entries[1].title = W_ab
    /\ sdk.entries[2].platform = P_unknown /\ sdk.entries[2].title = W_cd

-----------------------------------------------------------------------------
(* The platform filter of searchSdk *)

\* the positions of the parsed entries whose platform is p
EntriesOn(p) == {i \in DOMAIN sdk.entries : sdk.entries[i].platform = p}

ReturnedEntries == {sdk.results[i] : i \in DOMAIN sdk.results}

\* C21: for a platform filter p other than "all" every entry searchSdk returns
\* has platform p, and when no parsed entry has platform p the result is empty
\* and reported as "No Results Found"; with "all" every parsed entry is ranked,
\* so none is left out for its platform: an entry that holds a query token is
\* returned when maxResults leaves room.
C21_PlatformFilter ==
    sdk.searched =>
        /\ sdk.platform # P_all =>
              /\ \A i \in DOMAIN sdk.results : sdk.results[i].platform = sdk.platform
              /\ EntriesOn(sdk.platform) = {} =>
                    (sdk.results = << >> /\ sdk.report = "No Results Found")
        /\ sdk.platform = P_all =>
              /\ Len(BatchDocs) = Len(sdk.entries)
              /\ \A i \in MatchingDocs :
                    lastMax >= Cardinality(MatchingDocs) => sdk.entries[i] \in ReturnedEntries
        /\ \A i \in DOMAIN sdk.results :
              \E j \in DOMAIN sdk.entries : sdk.entries[j] = sdk.results[i]

\* the filter ios over entries of two platforms with the same title: the one
\* of platform ios is returned alone
C21_Witness ==
    /\ sdk.searched /\ sdk.platform = P_ios /\ sdk.max = MaxResults
    /\ Len(sdk.results) = 1
    /\ \E i \in DOMAIN sdk.entries :
          /\ sdk.entries[i].platform # P_ios
          /\ sdk.entries[i].title = sdk.results[1].title
          /\ sdk.query = sdk.entries[i].title

-----------------------------------------------------------------------------
(* search_docs: the paths that end before any page is asked for *)

\* the positions of the log where content is asked for
PageRequests ==
    {p \in DOMAIN docsHandler.log :
        docsHandler.log[p].op = "fetch" /\ docsHandler.log[p].url # IndexUrl}

IndexEnded(op) == \E p \in DOMAIN docsHandler.log : docsHandler.log[p] = Ev(op, IndexUrl)

\* the invocation has ended with this outcome and never asked for a page
EndedWithoutPages(outcome) ==
    /\ docsHandler.pc = "done"
    /\ docsHandler.outcome = outcome
    /\ PageRequests = {}

\* C22: in search_docs, when the request for the llms.txt index rejects or has a
\* status that is not OK the handler rejects with an ApiError; when the index
\* has no link it resolves to the "No Documentation Available" text; when the
\* ranking is empty it resolves to the "No Results Found" text; and in none of
\* the three cases is page content requested.
C22_NoPageRequestOnEarlyPaths ==
    /\ IndexEnded("fail") => EndedWithoutPages("ApiError")
    /\ IndexEnded("ok") /\ docsHandler.links = 0 => EndedWithoutPages("warning")
    /\ IndexEnded("ok") /\ docsHandler.links > 0 /\ docsHandler.results = << >> =>
          EndedWithoutPages("noResults")

\* an index of links none of which the ranking keeps
C22_Witness ==
    /\ IndexEnded("ok")
    /\ docsHandler.links > 0
    /\ docsHandler.results = << >>
    /\ docsHandler.outcome = "noResults"

-----------------------------------------------------------------------------
(* Content that cannot be fetched *)

\* what a content fetch that ended this way left in the output: the body, or a
\* text that is not the body
Describes(outcome, text) ==
    IF outcome = "ok" THEN text = "content" ELSE text \notin {"content", ""}

\* search_docs: the output holds the results so far in the order of the ranking,
\* each with a text, and once a page was asked for the handler does not reject
DocsOutputKept ==
    /\ Len(docsHandler.output) <= Len(docsHandler.results)
    /\ \A p \in DOMAIN docsHandler.output :
          /\ docsHandler.output[p].link = docsHandler.results[p]
          /\ Describes(docsHandler.output[p].outcome, docsHandler.output[p].content)
    /\ PageRequests # {} => docsHandler.outcome # "ApiError"
    /\ PageRequests # {} /\ docsHandler.pc = "done" =>
          /\ docsHandler.outcome = "results"
          /\ Len(docsHandler.output) = Len(docsHandler.results)

\* search_sdk: the same, for the source codes Promise.all collects
SdkOutputKept ==
    /\ DOMAIN handler.codes = (1..handler.found) \ handler.sources
    /\ \A j \in DOMAIN handler.codes :
          Describes(handler.codes[j].outcome, handler.codes[j].text)
    /\ handler.found > 0 => handler.outcome # "ApiError"
    /\ handler.found > 0 /\ handler.pc = "done" =>
          /\ handler.outcome = "results"
          /\ DOMAIN handler.codes = 1..handler.found

\* C23: fetchDocContent and fetchSdkContent never throw: a status that is not
\* OK, a timeout abort and a network error each produce a text, so a content
\* fetch that fails never makes the tool handler fail and never removes or
\* reorders the results in the output.
C23_FailedFetchKeepsResults == DocsOutputKept /\ SdkOutputKept

\* two pages ranked against the order of the index, the first one unreachable
C23_Witness ==
    /\ docsHandler.pc = "done"
    /\ docsHandler.results = << 2, 1 >>
    /\ Len(docsHandler.output) = 2
    /\ docsHandler.output[1].outcome = "network"
    /\ docsHandler.output[2].outcome = "ok"

-----------------------------------------------------------------------------
(* tools/call *)

\* C26: for a tools/call request that names a registered tool, the tool's
\* handler is invoked only after the arguments passed the input schema; a
\* validation failure, and any error the handler throws, comes back as a
\* response with isError true and a formatted message and is not thrown on;
\* after a validation failure the handler is never invoked.
C26_ValidatedBeforeInvoked ==
    /\ server.calls = 1 => server.tool \in Tools /\ server.valid
    /\ docsHandler # DocsIdle \/ handler # HandlerIdle => server.calls = 1
    /\ server.tool \in Tools => server.thrown = "none"
    /\ server.tool \in Tools /\ ~server.valid =>
          /\ server.pc = "done"
          /\ server.calls = 0
          /\ server.response = [isError |-> TRUE, text |-> "[Validation Error]"]
    /\ server.pc = "done" /\ server.calls = 1 /\ Awaited.outcome = "ApiError" =>
          server.response = [isError |-> TRUE, text |-> "[API Error]"]
    /\ server.pc = "done" /\ server.calls = 1 /\ Awaited.outcome # "ApiError" =>
          server.response = [isError |-> FALSE, text |-> Awaited.outcome]

\* search_docs was called with valid arguments and its handler rejected
C26_Witness ==
    /\ server.pc = "done"
    /\ server.tool = "search_docs"
    /\ server.valid
    /\ docsHandler.outcome = "ApiError"
    /\ server.response.isError

====
